---- MODULE Spec2Model ----
(***************************************************************************)
(* A model of the HRML template engine (src/src/template.rs): the parser,  *)
(* the resolver that composes templates through load/slot/block, and the   *)
(* renderer with its context.                                              *)
(*                                                                         *)
(* A Rust String is modelled as a sequence of one-character strings, so    *)
(* that scanning, splitting and trimming are computed character by         *)
(* character as the code does.  Positions are 0-based as in the source:    *)
(* At(chars, i) is chars[i] of the source.  A HashMap is a function whose  *)
(* DOMAIN is its key set.  A Result is a record with an `ok` flag and an   *)
(* `err` record standing for the error message.                            *)
(***************************************************************************)
EXTENDS Integers, Sequences, FiniteSets, TLC

(***************************************************************************)
(* Characters                                                              *)
(***************************************************************************)
Whitespace == {" ", "\n", "\t"}

Alphanumeric ==
    {"a","b","c","d","e","f","g","h","i","j","k","l","m","n","o","p","q","r","s",
     "t","u","v","w","x","y","z","A","B","C","D","E","F","G","H","I","J","K","L",
     "M","N","O","P","Q","R","S","T","U","V","W","X","Y","Z","0","1","2","3","4",
     "5","6","7","8","9"}

At(chars, i) == chars[i + 1]

(***************************************************************************)
(* HashMap<String, String>                                                 *)
(***************************************************************************)
EmptyMap == [k \in {} |-> <<>>]

Insert(m, k, v) == [x \in (DOMAIN m) \cup {k} |-> IF x = k THEN v ELSE m[x]]

ContainsKey(m, k) == k \in DOMAIN m

\* attrs.get(k).cloned().unwrap_or(d)
GetOr(m, k, d) == IF k \in DOMAIN m THEN m[k] ELSE d

(***************************************************************************)
(* Errors: the String of an Err, kept as the message kind and the values   *)
(* formatted into it.                                                      *)
(***************************************************************************)
NoErr == [kind |-> "none", path |-> <<>>, tag |-> <<>>, pos |-> 0]

CircularErr(path) == [kind |-> "Circular template dependency detected", path |-> path, tag |-> <<>>, pos |-> 0]

ReadErr(path) == [kind |-> "Failed to read template", path |-> path, tag |-> <<>>, pos |-> 0]

ParseLoopErr(pos) == [kind |-> "Parser infinite loop detected", path |-> <<>>, tag |-> <<>>, pos |-> pos]

ParseUntilErr(tag, pos) == [kind |-> "Parser infinite loop in parse_until", path |-> <<>>, tag |-> tag, pos |-> pos]

(***************************************************************************)
(* AST                                                                     *)
(***************************************************************************)
Text(text) == [type |-> "Text", text |-> text]

Element(name, attrs, children) ==
    [type |-> "Element", name |-> name, attrs |-> attrs, children |-> children]

VoidElement(name, attrs) == [type |-> "VoidElement", name |-> name, attrs |-> attrs]

VoidNames ==
    {<<"l","o","a","d">>, <<"g","e","t">>, <<"e","l","s","e">>, <<"i","n","c","l","u","d","e">>,
     <<"i","n","p","u","t">>, <<"b","r">>, <<"h","r">>, <<"i","m","g">>, <<"m","e","t","a">>, <<"l","i","n","k">>, <<"a","r","e","a">>, <<"b","a","s","e">>,
     <<"c","o","l">>, <<"e","m","b","e","d">>, <<"p","a","r","a","m">>, <<"s","o","u","r","c","e">>, <<"t","r","a","c","k">>, <<"w","b","r">>}

is_void(name) == name \in VoidNames

(***************************************************************************)
(* Parser                                                                  *)
(***************************************************************************)
\* The iteration ceiling of parse and parse_until.
MaxIterations == 10000

starts_with(chars, pos, s) ==
    IF pos + Len(s) > Len(chars) THEN FALSE
    ELSE \A i \in 0..(Len(s) - 1) : At(chars, pos + i) = s[i + 1]

\* starts_with_reads with the defect of not comparing the lengths first.
starts_with_reads_unchecked(chars, pos, s) == {pos + i : i \in 0..(Len(s) - 1)}

\* The indices at which starts_with reads self.chars: none when s does not fit,
\* else up to the first character that differs.
starts_with_reads(chars, pos, s) ==
    IF pos + Len(s) > Len(chars) THEN {}
    ELSE {pos + i : i \in {k \in 0..(Len(s) - 1) :
                               \A j \in 0..(k - 1) : At(chars, pos + j) = s[j + 1]}}

\* The index at which a condition `self.pos < self.chars.len() && ..
\* self.chars[self.pos] ..` reads self.chars, and the body of a loop under it.
guarded_read(chars, pos) == IF pos < Len(chars) THEN {pos} ELSE {}

\* Where a loop `while self.pos < self.chars.len() && keep { self.pos += 1 }` that
\* starts at pos leaves self.pos: the first position from pos on that is the end
\* of the input or outside `keep`, the set of positions where the loop goes on.
scan_while(chars, pos, keep) ==
    IF pos >= Len(chars) THEN pos
    ELSE CHOOSE j \in pos..Len(chars) :
             /\ j = Len(chars) \/ j \notin keep
             /\ \A k \in pos..(j - 1) : k \in keep

\* The positions of chars from pos on.
From(chars, pos) == pos..(Len(chars) - 1)

\* chars[from..to], the characters such a loop pushed on its way.
Slice(chars, from, to) == SubSeq(chars, from + 1, to)

\* while self.pos < self.chars.len() && self.chars[self.pos].is_whitespace()
skip_whitespace(chars, pos) ==
    scan_while(chars, pos, {j \in From(chars, pos) : At(chars, j) \in Whitespace})

is_identifier_char(c) == c \in Alphanumeric \/ c = "_" \/ c = "-"

consume_identifier(chars, pos) ==
    LET start == skip_whitespace(chars, pos)
        end == scan_while(chars, start,
                   {j \in From(chars, start) : is_identifier_char(At(chars, j))})
    IN  [id |-> Slice(chars, start, end), pos |-> end]

\* The quoted form of an attribute value: up to the matching quote, then one more.
quoted_value(chars, pos, quote) ==
    LET end == scan_while(chars, pos, {j \in From(chars, pos) : At(chars, j) # quote}) IN
    [value |-> Slice(chars, pos, end), pos |-> end + 1]

unquoted_value(chars, pos) ==
    LET end == scan_while(chars, pos,
                   {j \in From(chars, pos) : /\ At(chars, j) \notin Whitespace
                                             /\ At(chars, j) # "?"
                                             /\ At(chars, j) # ">"})
    IN  [value |-> Slice(chars, pos, end), pos |-> end]

\* The part of parse_attributes that follows a key: an optional = and its value.
attribute_value(chars, pos0) ==
    LET pos == skip_whitespace(chars, pos0) IN
    IF pos < Len(chars) /\ At(chars, pos) = "="
    THEN LET p == skip_whitespace(chars, pos + 1) IN
         IF p < Len(chars)
         THEN IF At(chars, p) = "\"" \/ At(chars, p) = "'"
              THEN quoted_value(chars, p + 1, At(chars, p))
              ELSE unquoted_value(chars, p)
         ELSE [value |-> <<>>, pos |-> p]
    ELSE [value |-> <<>>, pos |-> pos]

RECURSIVE attributes_loop(_, _, _)
attributes_loop(chars, pos0, attrs) ==
    LET pos == skip_whitespace(chars, pos0) IN
    IF \/ pos >= Len(chars)
       \/ starts_with(chars, pos, <<"?",">">>)
       \/ starts_with(chars, pos, <<"/","?",">">>)
    THEN [attrs |-> attrs, pos |-> pos]
    ELSE LET key == consume_identifier(chars, pos) IN
         IF key.id = <<>>
         THEN attributes_loop(chars,
                  IF ~starts_with(chars, key.pos, <<"?",">">>) THEN key.pos + 1 ELSE key.pos,
                  attrs)
         ELSE LET v == attribute_value(chars, key.pos) IN
              attributes_loop(chars, v.pos, Insert(attrs, key.id, v.value))

parse_attributes(chars, pos) == attributes_loop(chars, pos, EmptyMap)

is_closing(chars, pos, name) ==
    LET pattern == <<"<","/","?">> \o name
        end == pos + Len(pattern)
    IN  IF starts_with(chars, pos, pattern)
        THEN \/ end >= Len(chars)
             \/ At(chars, end) \in Whitespace
             \/ At(chars, end) = "?"
             \/ At(chars, end) = ">"
        ELSE FALSE

\* The indices at which is_closing reads self.chars: those of starts_with, and
\* `end` when the pattern is there and is not the end of the input.
is_closing_reads(chars, pos, name) ==
    starts_with_reads(chars, pos, <<"<","/","?">> \o name)
    \cup (IF /\ starts_with(chars, pos, <<"<","/","?">> \o name)
              /\ ~(pos + Len(<<"<","/","?">> \o name) >= Len(chars))
           THEN {pos + Len(<<"<","/","?">> \o name)}
           ELSE {})

\* consume_closing with the defect of leaving the position where it was.
consume_closing_stuck(chars, pos) == pos

\* Consume until ?>
consume_closing(chars, pos) ==
    LET end == scan_while(chars, pos,
                   {j \in From(chars, pos) : ~starts_with(chars, j, <<"?",">">>)})
    IN  IF end < Len(chars) THEN end + 2 ELSE end

is_any_closing(chars, pos) == starts_with(chars, pos, <<"<","/","?">>)

consume_text(chars, pos) ==
    LET end == scan_while(chars, pos,
                   {j \in From(chars, pos) :
                        /\ ~(starts_with(chars, j, <<"<","?">>) /\ ~starts_with(chars, j, <<"<","/","?">>))
                        /\ ~is_any_closing(chars, j)})
    IN  [text |-> Slice(chars, pos, end), pos |-> end]

\* Just scan for ?>
scan_to_end(chars, pos) ==
    scan_while(chars, pos, {j \in From(chars, pos) : ~starts_with(chars, j, <<"?",">">>)})

\* The state of one `while self.pos < self.chars.len()` loop of parse or
\* parse_until: `done` once the loop has been left, `err` when it was left by Err.
LoopStart(pos) == [pos |-> pos, nodes |-> <<>>, iterations |-> 0, done |-> FALSE, err |-> NoErr]

RECURSIVE parse_node(_, _)
RECURSIVE parse_until(_, _, _)
RECURSIVE parse_until_loop(_, _, _)

\* What a pass of either loop does with the Result<Option<Node>> r of
\* parse_node: `?` leaves by the Err, Some(node) is pushed, None breaks.
push_node(st, r) ==
    IF ~r.ok THEN [st EXCEPT !.iterations = @ + 1, !.done = TRUE, !.err = r.err]
    ELSE IF r.some
    THEN [st EXCEPT !.iterations = @ + 1, !.nodes = Append(@, r.node), !.pos = r.pos]
    ELSE [st EXCEPT !.iterations = @ + 1, !.done = TRUE]

\* A pass stalled: it handled a node and left pos where it was.  parse_node
\* depends on chars and pos only, so every later pass does the same, and the
\* loop runs until its iteration ceiling.
stalled(st, next) == ~next.done /\ next.pos = st.pos

\* The Result a loop is left with: Ok(nodes), or the Err it was left by.
loop_result(st) ==
    [ok |-> st.err = NoErr, nodes |-> IF st.err = NoErr THEN st.nodes ELSE <<>>,
     pos |-> st.pos, err |-> st.err]

\* One pass of the loop of parse_until.
parse_until_pass(chars, closing_tag, st) ==
    IF ~(st.pos < Len(chars)) THEN [st EXCEPT !.done = TRUE]
    ELSE IF st.iterations + 1 > MaxIterations
    THEN [st EXCEPT !.iterations = @ + 1, !.done = TRUE,
                    !.err = ParseUntilErr(closing_tag, st.pos)]
    ELSE IF is_closing(chars, st.pos, closing_tag)
    THEN [st EXCEPT !.iterations = @ + 1, !.done = TRUE,
                    !.pos = consume_closing(chars, st.pos)]
    ELSE push_node(st, parse_node(chars, st.pos))

\* A pass of the loop of parse_until from st that gave next.  When it stalled,
\* the later passes are not unrolled: the guard fires with iterations at the
\* ceiling.
parse_until_settle(chars, closing_tag, st, next) ==
    IF stalled(st, next)
    THEN parse_until_pass(chars, closing_tag, [next EXCEPT !.iterations = MaxIterations])
    ELSE next

parse_until_step(chars, closing_tag, st) ==
    parse_until_settle(chars, closing_tag, st, parse_until_pass(chars, closing_tag, st))

\* The passes of the loop from loop state st on.
parse_until_loop(chars, closing_tag, st) ==
    IF st.done THEN st
    ELSE parse_until_loop(chars, closing_tag, parse_until_step(chars, closing_tag, st))

parse_until(chars, pos, closing_tag) ==
    loop_result(parse_until_loop(chars, closing_tag, LoopStart(pos)))

\* parse_element once the children are parsed: `?` passes their Err on.
element_result(name, attrs, children) ==
    IF children.ok
    THEN [ok |-> TRUE, some |-> TRUE, node |-> Element(name, attrs, children.nodes),
          pos |-> children.pos, err |-> NoErr]
    ELSE [ok |-> FALSE, some |-> FALSE, node |-> Text(<<>>),
          pos |-> children.pos, err |-> children.err]

\* parse_element from the end of the opening tag on.
element_body(chars, name, attrs, pos) ==
    IF is_void(name)
    THEN [ok |-> TRUE, some |-> TRUE, node |-> VoidElement(name, attrs),
          pos |-> pos, err |-> NoErr]
    ELSE element_result(name, attrs, parse_until(chars, pos, name))

\* parse_element between the attributes and the end of the opening tag: skip
\* whitespace, take ?> when it is there, else scan for the next ?> and take it.
tag_end(chars, pos) ==
    LET p1 == skip_whitespace(chars, pos) IN
    IF starts_with(chars, p1, <<"?",">">>) THEN p1 + 2
    ELSE LET p3 == scan_to_end(chars, p1) IN
         IF starts_with(chars, p3, <<"?",">">>) THEN p3 + 2 ELSE p3

\* parse_element from the attributes on.
element_tag(chars, name, a) == element_body(chars, name.id, a.attrs, tag_end(chars, a.pos))

\* parse_element after the name.
element_named(chars, name) == element_tag(chars, name, parse_attributes(chars, name.pos))

parse_element(chars, pos) == element_named(chars, consume_identifier(chars, pos + 2))

\* consume_text as a node.
text_node(t) == [ok |-> TRUE, some |-> TRUE, node |-> Text(t.text), pos |-> t.pos, err |-> NoErr]

parse_node(chars, pos) ==
    IF pos >= Len(chars)
    THEN [ok |-> TRUE, some |-> FALSE, node |-> Text(<<>>), pos |-> pos, err |-> NoErr]
    ELSE IF starts_with(chars, pos, <<"<","?">>) /\ ~starts_with(chars, pos, <<"<","/","?">>)
    THEN parse_element(chars, pos)
    ELSE text_node(consume_text(chars, pos))

\* One pass of the loop of parse.
parse_pass(chars, st) ==
    IF ~(st.pos < Len(chars)) THEN [st EXCEPT !.done = TRUE]
    ELSE IF st.iterations + 1 > MaxIterations
    THEN [st EXCEPT !.iterations = @ + 1, !.done = TRUE, !.err = ParseLoopErr(st.pos)]
    ELSE push_node(st, parse_node(chars, st.pos))

\* A pass of the loop of parse from st that gave next, as in parse_until_settle.
parse_settle(chars, st, next) ==
    IF stalled(st, next)
    THEN parse_pass(chars, [next EXCEPT !.iterations = MaxIterations])
    ELSE next

parse_step(chars, st) == parse_settle(chars, st, parse_pass(chars, st))

RECURSIVE parse_loop(_, _)
parse_loop(chars, st) ==
    IF st.done THEN st ELSE parse_loop(chars, parse_step(chars, st))

\* Parser::new(input).parse()
parse(chars) == loop_result(parse_loop(chars, LoopStart(0)))

(***************************************************************************)
(* Strings (str methods used by the renderer and the context)              *)
(***************************************************************************)
\* haystack.contains(needle)
Contains(haystack, needle) ==
    \E i \in 0..(Len(haystack) - Len(needle)) : starts_with(haystack, i, needle)

\* s.split(sep): the parts of s between the non-overlapping occurrences of sep,
\* found left to right.
RECURSIVE split_from(_, _, _, _, _)
split_from(s, sep, pos, part, parts) ==
    IF pos >= Len(s) THEN Append(parts, part)
    ELSE IF starts_with(s, pos, sep)
    THEN split_from(s, sep, pos + Len(sep), <<>>, Append(parts, part))
    ELSE split_from(s, sep, pos + 1, Append(part, At(s, pos)), parts)

split(s, sep) == split_from(s, sep, 0, <<>>, <<>>)

RECURSIVE trim_start_in(_, _)
trim_start_in(s, set) ==
    IF Len(s) > 0 /\ Head(s) \in set THEN trim_start_in(Tail(s), set) ELSE s

RECURSIVE trim_end_in(_, _)
trim_end_in(s, set) ==
    IF Len(s) > 0 /\ s[Len(s)] \in set THEN trim_end_in(SubSeq(s, 1, Len(s) - 1), set) ELSE s

\* s.trim()
trim(s) == trim_end_in(trim_start_in(s, Whitespace), Whitespace)

\* s.trim_matches(c)
trim_matches(s, c) == trim_end_in(trim_start_in(s, {c}), {c})

\* s.split_whitespace().next()
first_token(s) ==
    LET t == trim_start_in(s, Whitespace)
        stop == {i \in 1..Len(t) : t[i] \in Whitespace}
        end == IF stop = {} THEN Len(t) ELSE (CHOOSE i \in stop : \A j \in stop : i <= j) - 1
    IN  [some |-> Len(t) > 0, token |-> SubSeq(t, 1, end)]

RECURSIVE Flatten(_)
Flatten(seqs) == IF seqs = <<>> THEN <<>> ELSE Head(seqs) \o Flatten(Tail(seqs))

(***************************************************************************)
(* serde_json::Value, with integers for its numbers                        *)
(***************************************************************************)
Null == [kind |-> "Null"]

Bool(b) == [kind |-> "Bool", b |-> b]

Number(n) == [kind |-> "Number", n |-> n]

String(s) == [kind |-> "String", s |-> s]

Array(items) == [kind |-> "Array", items |-> items]

Object(fields) == [kind |-> "Object", fields |-> fields]

Digit(d) == <<"0","1","2","3","4","5","6","7","8","9">>[d + 1]

RECURSIVE digits(_)
digits(n) == IF n < 10 THEN <<Digit(n)>> ELSE Append(digits(n \div 10), Digit(n % 10))

\* n.to_string()
number_to_string(n) == IF n < 0 THEN <<"-">> \o digits(0 - n) ELSE digits(n)

\* b.to_string()
bool_to_string(b) == IF b THEN <<"t","r","u","e">> ELSE <<"f","a","l","s","e">>

\* value.get(part) for a &str index: Some only for a key of an object.
value_get(value, part) ==
    IF value.kind = "Object" /\ part \in DOMAIN value.fields
    THEN [some |-> TRUE, v |-> value.fields[part]]
    ELSE [some |-> FALSE, v |-> Null]

(***************************************************************************)
(* Context                                                                 *)
(***************************************************************************)
Context_new(data) == [data |-> data, vars |-> EmptyMap]

Context_set(context, key, value) == [context EXCEPT !.vars = Insert(@, key, value)]

RECURSIVE traverse(_, _)
\* traverse with the defect of stopping at the last value found when a segment
\* is missing.
traverse_lenient(current, parts) ==
    IF parts = <<>> THEN [some |-> TRUE, v |-> current]
    ELSE IF value_get(current, Head(parts)).some
    THEN traverse(value_get(current, Head(parts)).v, Tail(parts))
    ELSE [some |-> TRUE, v |-> current]

traverse(current, parts) ==
    IF parts = <<>> THEN [some |-> TRUE, v |-> current]
    ELSE LET next == value_get(current, Head(parts)) IN
         IF next.some THEN traverse(next.v, Tail(parts)) ELSE next

\* Context_get with the defect of consulting the data before the vars.
Context_get_data_first(context, key) ==
    LET found == traverse(context.data, split(key, <<".">>)) IN
    IF found.some /\ found.v.kind = "String" THEN found.v.s
    ELSE IF key \in DOMAIN context.vars THEN context.vars[key]
    ELSE <<>>

Context_get(context, key) ==
    IF key \in DOMAIN context.vars THEN context.vars[key]
    ELSE LET found == traverse(context.data, split(key, <<".">>)) IN
         IF ~found.some THEN <<>>
         ELSE IF found.v.kind = "String" THEN found.v.s
         ELSE IF found.v.kind = "Number" THEN number_to_string(found.v.n)
         ELSE IF found.v.kind = "Bool" THEN bool_to_string(found.v.b)
         ELSE <<>>

(***************************************************************************)
(* Resolver: blocks and slots                                              *)
(***************************************************************************)
IsElement(node, name) == node.type = "Element" /\ node.name = name

IsVoid(node, name) == node.type = "VoidElement" /\ node.name = name

RECURSIVE extract_blocks_from(_, _)
extract_blocks_from(nodes, blocks) ==
    IF nodes = <<>> THEN blocks
    ELSE LET node == Head(nodes) IN
         IF IsElement(node, <<"b","l","o","c","k">>) /\ ContainsKey(node.attrs, <<"s","l","o","t">>)
         THEN extract_blocks_from(Tail(nodes), Insert(blocks, node.attrs[<<"s","l","o","t">>], node.children))
         ELSE extract_blocks_from(Tail(nodes), blocks)

extract_blocks(nodes) == extract_blocks_from(nodes, EmptyMap)

\* nodes.retain(|n| !matches!(n, Node::Element { name, .. } if name == "block"))
retain_non_block(nodes) == SelectSeq(nodes, LAMBDA n : ~IsElement(n, <<"b","l","o","c","k">>))

\* inject_blocks with the defect of leaving every slot as it is.
inject_nothing(parent_nodes, blocks) == parent_nodes

\* inject_blocks with the defect of leaving a slot that has no block in the tree.
RECURSIVE inject_blocks_keeping(_, _)
inject_blocks_keeping(parent_nodes, blocks) ==
    Flatten([i \in 1..Len(parent_nodes) |->
        IF parent_nodes[i].type # "Element" THEN <<parent_nodes[i]>>
        ELSE IF /\ parent_nodes[i].name = <<"s","l","o","t">>
                /\ ContainsKey(parent_nodes[i].attrs, <<"i","d">>)
                /\ ContainsKey(blocks, parent_nodes[i].attrs[<<"i","d">>])
        THEN blocks[parent_nodes[i].attrs[<<"i","d">>]]
        ELSE <<[parent_nodes[i] EXCEPT !.children = inject_blocks_keeping(@, blocks)]>>])

\* inject_blocks with the defect of filling the slots of the top level only.
inject_blocks_shallow(parent_nodes, blocks) ==
    Flatten([i \in 1..Len(parent_nodes) |->
        IF /\ IsElement(parent_nodes[i], <<"s","l","o","t">>)
           /\ ContainsKey(parent_nodes[i].attrs, <<"i","d">>)
           /\ ContainsKey(blocks, parent_nodes[i].attrs[<<"i","d">>])
        THEN blocks[parent_nodes[i].attrs[<<"i","d">>]]
        ELSE IF IsElement(parent_nodes[i], <<"s","l","o","t">>) THEN parent_nodes[i].children
        ELSE <<parent_nodes[i]>>])

RECURSIVE inject_blocks(_, _)
inject_blocks(parent_nodes, blocks) ==
    IF parent_nodes = <<>> THEN <<>>
    ELSE LET node == Head(parent_nodes)
             rest == inject_blocks(Tail(parent_nodes), blocks)
         IN  IF node.type = "Element"
             THEN IF node.name = <<"s","l","o","t">>
                  THEN IF ContainsKey(node.attrs, <<"i","d">>) /\ ContainsKey(blocks, node.attrs[<<"i","d">>])
                       THEN blocks[node.attrs[<<"i","d">>]] \o rest
                       ELSE inject_blocks(node.children, blocks) \o rest
                  ELSE <<Element(node.name, node.attrs, inject_blocks(node.children, blocks))>> \o rest
             ELSE <<node>> \o rest

\* IsLoad with the defect of taking no node for a load.
IsLoad_never(node) == FALSE

\* The load directive the loop of resolve_with_tracking expands.
IsLoad(node) == IsVoid(node, <<"l","o","a","d">>) /\ ContainsKey(node.attrs, <<"f","i","l","e">>)

(***************************************************************************)
(* Renderer                                                                *)
(***************************************************************************)
\* A rendering returns the string and the context as the call left it
\* (context is a &mut Context).
Rendered(out, context) == [out |-> out, context |-> context]

\* The items render_for iterates.
ForItems == <<<<"i","t","e","m","1">>, <<"i","t","e","m","2">>, <<"i","t","e","m","3">>>>

eval_condition(condition, context) ==
    LET parts == split(condition, <<"=","=">>) IN
    IF Contains(condition, <<"=","=">>) /\ Len(parts) = 2
    THEN LET left == Context_get(context, trim(parts[1]))
             right == trim_matches(trim_matches(trim(parts[2]), "\""), "'")
         IN  left = right
    ELSE Context_get(context, condition) # <<>>

RECURSIVE split_if_from(_, _, _, _)
split_if_from(children, in_else, true_branch, false_branch) ==
    IF children = <<>> THEN [true_nodes |-> true_branch, false_nodes |-> false_branch]
    ELSE LET node == Head(children) IN
         IF IsVoid(node, <<"e","l","s","e">>)
         THEN split_if_from(Tail(children), TRUE, true_branch, false_branch)
         ELSE IF in_else
         THEN split_if_from(Tail(children), in_else, true_branch, Append(false_branch, node))
         ELSE split_if_from(Tail(children), in_else, Append(true_branch, node), false_branch)

\* split_if_children with the defect of not recognising the else marker.
split_if_unsplit(children) == [true_nodes |-> children, false_nodes |-> <<>>]

split_if_children(children) == split_if_from(children, FALSE, <<>>, <<>>)

\* The markup of btn, link and form around the rendered children `inner`.
\* button_html with the defect of always taking the get attribute.
button_html_get(attrs, method, inner) ==
    Rendered(<<"<","b","u","t","t","o","n"," ","c","l","a","s","s","=","\"","b","t","n"," ","b","t","n","-","p","r","i","m","a","r","y","\""," ","d","a","t","a","-","g","e","t","=","\"">>
             \o GetOr(attrs, <<"g","e","t">>, <<>>)
             \o <<"\""," ","d","a","t","a","-","t","a","r","g","e","t","=","\"">> \o GetOr(attrs, <<"t","a","r","g","e","t">>, <<"#","b","o","d","y">>)
             \o <<"\""," ","d","a","t","a","-","s","w","a","p","=","\"">> \o GetOr(attrs, <<"s","w","a","p">>, <<"i","n","n","e","r","H","T","M","L">>) \o <<"\"",">">>
             \o inner.out \o <<"<","/","b","u","t","t","o","n",">">>,
             inner.context)

button_html(attrs, method, inner) ==
    Rendered(<<"<","b","u","t","t","o","n"," ","c","l","a","s","s","=","\"","b","t","n"," ","b","t","n","-","p","r","i","m","a","r","y","\""," ","d","a","t","a","-">> \o method \o <<"=","\"">>
             \o GetOr(attrs, method, <<>>)
             \o <<"\""," ","d","a","t","a","-","t","a","r","g","e","t","=","\"">> \o GetOr(attrs, <<"t","a","r","g","e","t">>, <<"#","b","o","d","y">>)
             \o <<"\""," ","d","a","t","a","-","s","w","a","p","=","\"">> \o GetOr(attrs, <<"s","w","a","p">>, <<"i","n","n","e","r","H","T","M","L">>) \o <<"\"",">">>
             \o inner.out \o <<"<","/","b","u","t","t","o","n",">">>,
             inner.context)

link_html(attrs, inner) ==
    Rendered(<<"<","a"," ","h","r","e","f","=","\"","#","\""," ","d","a","t","a","-","g","e","t","=","\"">> \o GetOr(attrs, <<"g","e","t">>, <<>>)
             \o <<"\""," ","d","a","t","a","-","t","a","r","g","e","t","=","\"">> \o GetOr(attrs, <<"t","a","r","g","e","t">>, <<"#","b","o","d","y">>)
             \o <<"\""," ","d","a","t","a","-","s","w","a","p","=","\"">> \o GetOr(attrs, <<"s","w","a","p">>, <<"i","n","n","e","r","H","T","M","L">>) \o <<"\"",">">>
             \o inner.out \o <<"<","/","a",">">>,
             inner.context)

\* form_html with the defect of escaping the rendered children.
form_html_escaped(attrs, inner) ==
    Rendered(<<"<","f","o","r","m"," ","d","a","t","a","-","p","o","s","t","=","\"">> \o GetOr(attrs, <<"p","o","s","t">>, <<>>)
             \o <<"\""," ","d","a","t","a","-","t","a","r","g","e","t","=","\"">> \o GetOr(attrs, <<"t","a","r","g","e","t">>, <<"#","b","o","d","y">>)
             \o <<"\""," ","d","a","t","a","-","s","w","a","p","=","\"">> \o GetOr(attrs, <<"s","w","a","p">>, <<"i","n","n","e","r","H","T","M","L">>) \o <<"\"",">">>
             \o Flatten([i \in 1..Len(inner.out) |->
                            IF inner.out[i] = "<" THEN <<"&","l","t",";">>
                            ELSE IF inner.out[i] = ">" THEN <<"&","g","t",";">>
                            ELSE <<inner.out[i]>>])
             \o <<"<","/","f","o","r","m",">">>,
             inner.context)

form_html(attrs, inner) ==
    Rendered(<<"<","f","o","r","m"," ","d","a","t","a","-","p","o","s","t","=","\"">> \o GetOr(attrs, <<"p","o","s","t">>, <<>>)
             \o <<"\""," ","d","a","t","a","-","t","a","r","g","e","t","=","\"">> \o GetOr(attrs, <<"t","a","r","g","e","t">>, <<"#","b","o","d","y">>)
             \o <<"\""," ","d","a","t","a","-","s","w","a","p","=","\"">> \o GetOr(attrs, <<"s","w","a","p">>, <<"i","n","n","e","r","H","T","M","L">>) \o <<"\"",">">>
             \o inner.out \o <<"<","/","f","o","r","m",">">>,
             inner.context)

RECURSIVE render_nodes(_, _)
RECURSIVE render_node(_, _)
RECURSIVE render_for_items(_, _, _, _)

\* render_if with the defect of rendering the branch in a copy of the context.
render_if_scoped(attrs, children, context) ==
    Rendered(render_nodes(IF eval_condition(GetOr(attrs, <<"c","o","n","d">>, <<>>), context)
                          THEN split_if_children(children).true_nodes
                          ELSE split_if_children(children).false_nodes,
                          context).out,
             context)

render_if(attrs, children, context) ==
    LET condition == GetOr(attrs, <<"c","o","n","d">>, <<>>)
        is_true == eval_condition(condition, context)
        branches == split_if_children(children)
    IN  IF is_true
        THEN render_nodes(branches.true_nodes, context)
        ELSE render_nodes(branches.false_nodes, context)

\* render_for_items with the defect of passing one pass's context on to the next.
render_for_items_threaded(items, item_var, children, context) ==
    IF items = <<>> THEN <<>>
    ELSE LET pass == render_nodes(children, Context_set(context, item_var, Head(items)))
         IN  pass.out \o render_for_items(Tail(items), item_var, children, pass.context)

\* The loop of render_for: every pass renders the children in a clone of the
\* context with item_var set, and pushes the output.
render_for_items(items, item_var, children, context) ==
    IF items = <<>> THEN <<>>
    ELSE LET loop_ctx == Context_set(context, item_var, Head(items)) IN
         render_nodes(children, loop_ctx).out
         \o render_for_items(Tail(items), item_var, children, context)

render_for(attrs, children, context) ==
    LET tok == IF ContainsKey(attrs, <<"i","n">>)
               THEN first_token(attrs[<<"i","n">>])
               ELSE [some |-> FALSE, token |-> <<>>]
        item_var == IF tok.some THEN tok.token ELSE <<"i","t","e","m">>
    IN  Rendered(render_for_items(ForItems, item_var, children, context), context)

\* The VoidElement "set" arm of render_node.
render_void_set(attrs, context) ==
    LET in_loop == IF ContainsKey(attrs, <<"i","d">>) /\ ContainsKey(attrs, <<"v","a","l","u","e">>)
                   THEN Context_set(context, <<"i","d">>, attrs[<<"v","a","l","u","e">>])
                   ELSE context
    IN  IF ContainsKey(attrs, <<"i","d">>) /\ ContainsKey(attrs, <<"v","a","l","u","e">>)
        THEN Rendered(<<>>, Context_set(in_loop, attrs[<<"i","d">>], attrs[<<"v","a","l","u","e">>]))
        ELSE Rendered(<<>>, in_loop)

\* set_content with the defect of emitting the content it stores.
set_content_emitting(id, content) ==
    Rendered(content.out, Context_set(content.context, id, content.out))

\* context.set(id, content) of the Element "set" arm: nothing is emitted.
set_content(id, content) == Rendered(<<>>, Context_set(content.context, id, content.out))

\* The Element "set" arm of render_node.
render_set(attrs, children, context) ==
    IF ContainsKey(attrs, <<"i","d">>)
    THEN set_content(attrs[<<"i","d">>], render_nodes(children, context))
    ELSE Rendered(<<>>, context)

\* render_other with the defect of keeping the tag around the children.
render_other_wrapped(name, inner) ==
    Rendered(<<"<">> \o name \o <<">">> \o inner.out \o <<"<","/">> \o name \o <<">">>, inner.context)

\* The `_` arm of the Element names: the rendered children `inner` and no tag.
render_other(name, inner) == inner

render_node(node, context) ==
    IF node.type = "Text" THEN Rendered(node.text, context)
    ELSE IF node.type = "VoidElement"
    THEN IF node.name = <<"s","e","t">> THEN render_void_set(node.attrs, context)
         ELSE IF node.name = <<"g","e","t">>
         THEN IF ContainsKey(node.attrs, <<"i","d">>)
              THEN Rendered(Context_get(context, node.attrs[<<"i","d">>]), context)
              ELSE Rendered(<<>>, context)
         ELSE Rendered(<<>>, context)
    ELSE IF node.name = <<"i","f">> THEN render_if(node.attrs, node.children, context)
    ELSE IF node.name = <<"f","o","r">> THEN render_for(node.attrs, node.children, context)
    ELSE IF node.name = <<"s","e","t">> THEN render_set(node.attrs, node.children, context)
    ELSE IF node.name = <<"b","t","n">>
    THEN button_html(node.attrs,
                     IF ContainsKey(node.attrs, <<"p","o","s","t">>) THEN <<"p","o","s","t">> ELSE <<"g","e","t">>,
                     render_nodes(node.children, context))
    ELSE IF node.name = <<"l","i","n","k">>
    THEN link_html(node.attrs, render_nodes(node.children, context))
    ELSE IF node.name = <<"f","o","r","m">>
    THEN form_html(node.attrs, render_nodes(node.children, context))
    ELSE IF node.name \in {<<"b","l","o","c","k">>, <<"s","l","o","t">>} THEN render_nodes(node.children, context)
    ELSE render_other(node.name, render_nodes(node.children, context))

\* push_rendered with the defect of putting the later output first.
push_reversed(first, rest) == Rendered(rest.out \o first.out, rest.context)

\* result.push_str(&self.render_node(node, context)?) and the nodes after it.
push_rendered(first, rest) == Rendered(first.out \o rest.out, rest.context)

render_rest(first, nodes) == push_rendered(first, render_nodes(nodes, first.context))

render_nodes(nodes, context) ==
    IF nodes = <<>> THEN Rendered(<<>>, context)
    ELSE render_rest(render_node(Head(nodes), context), Tail(nodes))
(***************************************************************************)
(* Document shell (src/src/html.rs)                                        *)
(***************************************************************************)
escape_html_char(c) ==
    IF c = "&" THEN <<"&","a","m","p",";">>
    ELSE IF c = "<" THEN <<"&","l","t",";">>
    ELSE IF c = ">" THEN <<"&","g","t",";">>
    ELSE IF c = "\"" THEN <<"&","q","u","o","t",";">>
    ELSE IF c = "'" THEN <<"&","#","3","9",";">>
    ELSE <<c>>

escape_html(input) == Flatten([i \in 1..Len(input) |-> escape_html_char(input[i])])

escape_attr_char(c) ==
    IF c = "&" THEN <<"&","a","m","p",";">>
    ELSE IF c = "\"" THEN <<"&","q","u","o","t",";">>
    ELSE IF c = "'" THEN <<"&","#","3","9",";">>
    ELSE <<c>>

escape_attr(input) == Flatten([i \in 1..Len(input) |-> escape_attr_char(input[i])])

attr_html(k, v) == k \o <<"=","\"">> \o escape_attr(v) \o <<"\"">>

\* MetaTag::build and LinkTag::build with two attributes: the attributes come in
\* the iteration order of a HashMap, which is either order.
tag_build(tag, k1, v1, k2, v2, swapped) ==
    <<"<">> \o tag \o <<" ">>
    \o (IF swapped THEN attr_html(k2, v2) \o <<" ">> \o attr_html(k1, v1)
        ELSE attr_html(k1, v1) \o <<" ">> \o attr_html(k2, v2))
    \o <<">">>

title(content) == <<"<","t","i","t","l","e",">">> \o escape_html(content) \o <<"<","/","t","i","t","l","e",">">>

HtmlDoc_build(head, body) ==
    <<"<","!","D","O","C","T","Y","P","E"," ","h","t","m","l",">","\n","<","h","t","m","l"," ","l","a","n","g","=","\"","e","n","\"",">","\n","<","h","e","a","d",">","\n">> \o head
    \o <<"\n","<","/","h","e","a","d",">","\n","<","b","o","d","y",">","\n">> \o body \o <<"\n","<","/","b","o","d","y",">","\n","<","/","h","t","m","l",">">>

\* Engine::new(base_path): the engine of a render call.
Engine_new == [site_name |-> <<"H","R","M","L"," ","A","p","p">>, site_description |-> <<>>, favicon |-> <<>>]

\* The HashMap orders one wrap_html call can meet, one per two-attribute tag.
HeadOrders == [{"viewport", "description", "icon", "stylesheet"} -> BOOLEAN]

\* site_description and favicon are Option<String>, here a sequence of 0 or 1 strings.
wrap_html(engine, body, order) ==
    LET head ==
            <<<<"<","m","e","t","a"," ","c","h","a","r","s","e","t","=","\"","U","T","F","-","8","\"",">">>,
              tag_build(<<"m","e","t","a">>, <<"n","a","m","e">>, <<"v","i","e","w","p","o","r","t">>, <<"c","o","n","t","e","n","t">>,
                        <<"w","i","d","t","h","=","d","e","v","i","c","e","-","w","i","d","t","h",","," ","i","n","i","t","i","a","l","-","s","c","a","l","e","=","1",".","0">>, order["viewport"]),
              title(engine.site_name)>>
            \o [i \in 1..Len(engine.site_description) |->
                    tag_build(<<"m","e","t","a">>, <<"n","a","m","e">>, <<"d","e","s","c","r","i","p","t","i","o","n">>, <<"c","o","n","t","e","n","t">>,
                              engine.site_description[i], order["description"])]
            \o [i \in 1..Len(engine.favicon) |->
                    tag_build(<<"l","i","n","k">>, <<"r","e","l">>, <<"i","c","o","n">>, <<"h","r","e","f">>, engine.favicon[i],
                              order["icon"])]
            \o <<tag_build(<<"l","i","n","k">>, <<"r","e","l">>, <<"s","t","y","l","e","s","h","e","e","t">>, <<"h","r","e","f">>,
                           <<"/","s","t","a","t","i","c","/","c","s","s","/","s","t","y","l","e",".","c","s","s">>, order["stylesheet"]),
                 <<"<","s","c","r","i","p","t"," ","s","r","c","=","\"","/","h","r","m","l",".","j","s","\"",">","<","/","s","c","r","i","p","t",">">>>>
        joined == Flatten([i \in 1..Len(head) |->
                              IF i = 1 THEN head[i] ELSE <<"\n">> \o head[i]])
    IN  HtmlDoc_build(joined, body)

(***************************************************************************)
(* The render call as a state machine                                      *)
(*                                                                         *)
(* One call of Engine::render: the recursion of resolve_with_tracking is   *)
(* kept as an explicit stack of frames, one per active call, and the       *)
(* top-level loop of render_nodes advances one node at a time.             *)
(***************************************************************************)
VARIABLES
    store,          \* the template files under base_path: path -> content
    entry,          \* template_path of the render call
    data,           \* the data argument of the render call
    pc,             \* "start", "resolve", "render" or "done"
    visited,        \* the visited set threaded through resolve_with_tracking
    stack,          \* the active calls of resolve_with_tracking, outermost first
    resolved_nodes, \* render's resolved_nodes once resolution has succeeded
    context,        \* render's context
    next_node,      \* the index of the node render_nodes renders next
    body,           \* the output of render_nodes so far
    result,         \* what render returned
    calls           \* the other render calls in progress on the same Engine

vars == <<store, entry, data, pc, visited, stack, resolved_nodes, context, next_node,
          body, result, calls>>

NoResult == [ok |-> FALSE, out |-> <<>>, err |-> NoErr]

Ok(out) == [ok |-> TRUE, out |-> out, err |-> NoErr]

Err(err) == [ok |-> FALSE, out |-> <<>>, err |-> err]

\* visited_insert with the defect of not inserting the path.
visited_forget(seen, template_path) == seen

\* visited.insert(template_path.to_string())
visited_insert(seen, template_path) == seen \cup {template_path}

\* visited_remove with the defect of clearing the set.
visited_clear(seen, template_path) == {}

\* visited_remove with the defect of leaving the path in the set.
visited_keep(seen, template_path) == seen

\* visited.remove(template_path)
visited_remove(seen, template_path) == seen \ {template_path}

\* resolve_with_tracking once the template is read and parsed: `?` passes a parse
\* Err on, else the blocks are extracted and removed and the loop starts.
entered(template_path, seen, parsed) ==
    IF ~parsed.ok
    THEN [ok |-> FALSE, err |-> parsed.err, visited |-> seen]
    ELSE [ok |-> TRUE, err |-> NoErr, visited |-> seen,
          frame |-> [template_path |-> template_path,
                     blocks |-> extract_blocks(parsed.nodes),
                     nodes |-> retain_non_block(parsed.nodes),
                     next |-> 1,
                     resolved_nodes |-> <<>>]]

\* read_and_parse with the defect of reading a file that is not there as empty.
read_and_parse_lenient(files, template_path, seen) ==
    entered(template_path, seen,
            parse(IF template_path \in DOMAIN files THEN files[template_path] ELSE <<>>))

\* resolve_with_tracking after the visited check: the path is inserted, the file
\* is read (`?` passes a read Err on) and parsed.
read_and_parse(files, template_path, seen) ==
    IF template_path \notin DOMAIN files
    THEN [ok |-> FALSE, err |-> ReadErr(template_path), visited |-> seen]
    ELSE entered(template_path, seen, parse(files[template_path]))

\* resolve_enter with the defect of not checking the visited set.
resolve_enter_unchecked(files, template_path, seen) ==
    read_and_parse(files, template_path, visited_insert(seen, template_path))

\* The top of resolve_with_tracking, up to the loop over the nodes: the outcome of
\* entering template_path with the visited set as the caller left it.
resolve_enter(files, template_path, seen) ==
    IF template_path \in seen
    THEN [ok |-> FALSE, err |-> CircularErr(template_path), visited |-> seen]
    ELSE read_and_parse(files, template_path, visited_insert(seen, template_path))

\* A call of resolve_with_tracking made with `callers` active: a new frame, or the
\* Err that every caller passes on with `?`, which ends the render call.
Enter(callers, r) ==
    /\ visited' = r.visited
    /\ IF r.ok
       THEN /\ stack' = Append(callers, r.frame)
            /\ pc' = "resolve"
            /\ result' = result
       ELSE /\ stack' = <<>>
            /\ pc' = "done"
            /\ result' = Err(r.err)

Call(template_path, callers) == Enter(callers, resolve_enter(store, template_path, visited))

Top == stack[Len(stack)]

\* Engine::render, up to its call of resolve_with_tracking.
RenderCall ==
    /\ pc = "start"
    /\ context' = Context_new(data)
    /\ Call(entry, <<>>)
    /\ UNCHANGED <<store, entry, data, resolved_nodes, next_node, body, calls>>

\* The loop of resolve_with_tracking meets a load directive with a file.
ResolveLoad ==
    /\ pc = "resolve"
    /\ Top.next <= Len(Top.nodes)
    /\ IsLoad(Top.nodes[Top.next])
    /\ Call(Top.nodes[Top.next].attrs[<<"f","i","l","e">>], stack)
    /\ UNCHANGED <<store, entry, data, resolved_nodes, context, next_node, body, calls>>

\* The loop of resolve_with_tracking meets any other node.
ResolvePush ==
    /\ pc = "resolve"
    /\ Top.next <= Len(Top.nodes)
    /\ ~IsLoad(Top.nodes[Top.next])
    /\ stack' = [stack EXCEPT ![Len(stack)] =
                    [@ EXCEPT !.resolved_nodes = Append(@, Top.nodes[Top.next]),
                              !.next = @ + 1]]
    /\ UNCHANGED <<store, entry, data, pc, visited, resolved_nodes, context, next_node,
                   body, result, calls>>

\* resolve_with_tracking returns Ok: to the load that called it, which injects its
\* blocks into the loaded nodes, or to render.
ResolveReturn ==
    /\ pc = "resolve"
    /\ Top.next > Len(Top.nodes)
    /\ visited' = visited_remove(visited, Top.template_path)
    /\ IF Len(stack) > 1
       THEN LET caller == stack[Len(stack) - 1]
                loaded_nodes == inject_blocks(Top.resolved_nodes, caller.blocks)
            IN  /\ stack' = Append(SubSeq(stack, 1, Len(stack) - 2),
                                   [caller EXCEPT !.resolved_nodes = @ \o loaded_nodes,
                                                  !.next = @ + 1])
                /\ UNCHANGED <<pc, resolved_nodes>>
       ELSE /\ stack' = <<>>
            /\ resolved_nodes' = Top.resolved_nodes
            /\ pc' = "render"
    /\ UNCHANGED <<store, entry, data, context, next_node, body, result, calls>>

\* result.push_str(..) of render_nodes, and the context the node left.
Push(r) ==
    /\ body' = body \o r.out
    /\ context' = r.context

\* One pass of the loop of render_nodes over the resolved tree.
RenderNode ==
    /\ pc = "render"
    /\ next_node <= Len(resolved_nodes)
    /\ Push(render_node(resolved_nodes[next_node], context))
    /\ next_node' = next_node + 1
    /\ UNCHANGED <<store, entry, data, pc, visited, stack, resolved_nodes, result, calls>>

\* render returns Ok(self.wrap_html(&body)).
RenderReturn ==
    /\ pc = "render"
    /\ next_node > Len(resolved_nodes)
    /\ \E order \in HeadOrders : result' = Ok(wrap_html(Engine_new, body, order))
    /\ pc' = "done"
    /\ UNCHANGED <<store, entry, data, visited, stack, resolved_nodes, context,
                   next_node, body, calls>>

Next ==
    \/ RenderCall
    \/ ResolveLoad
    \/ ResolvePush
    \/ ResolveReturn
    \/ RenderNode
    \/ RenderReturn

InitCall(scenario) ==
    /\ store = scenario.store
    /\ entry = scenario.entry
    /\ data = scenario.data
    /\ pc = "start"
    /\ visited = {}
    /\ stack = <<>>
    /\ resolved_nodes = <<>>
    /\ context = Context_new(Null)
    /\ next_node = 1
    /\ body = <<>>
    /\ result = NoResult


\* ---- Other render calls on the same Engine ----

\* resolve_with_tracking as the function it is when nothing else runs: the nodes it
\* returns, or its Err, and the visited set it leaves.
RECURSIVE resolve_with_tracking(_, _, _)
RECURSIVE resolve_nodes(_, _, _)

\* A load of resolve_with_tracking's loop after the recursive call: `?` passes its
\* Err on, else its nodes get the loader's blocks and the loop goes on.
resolve_loaded(files, frame, r) ==
    IF ~r.ok
    THEN r
    ELSE resolve_nodes(files,
                       [frame EXCEPT !.resolved_nodes = @ \o inject_blocks(r.nodes, frame.blocks),
                                     !.next = @ + 1],
                       r.visited)

\* The loop of resolve_with_tracking from frame.next on, and its return.
resolve_nodes(files, frame, seen) ==
    IF frame.next > Len(frame.nodes)
    THEN [ok |-> TRUE, err |-> NoErr, nodes |-> frame.resolved_nodes,
          visited |-> visited_remove(seen, frame.template_path)]
    ELSE IF IsLoad(frame.nodes[frame.next])
    THEN resolve_loaded(files, frame,
                        resolve_with_tracking(files, frame.nodes[frame.next].attrs[<<"f","i","l","e">>],
                                              seen))
    ELSE resolve_nodes(files,
                       [frame EXCEPT !.resolved_nodes = Append(@, frame.nodes[frame.next]),
                                     !.next = @ + 1],
                       seen)

resolve_entered(files, r) ==
    IF ~r.ok
    THEN [ok |-> FALSE, err |-> r.err, nodes |-> <<>>, visited |-> r.visited]
    ELSE resolve_nodes(files, r.frame, r.visited)

resolve_with_tracking(files, template_path, seen) ==
    resolve_entered(files, resolve_enter(files, template_path, seen))

\* The arguments and locals of a render call that has not run yet. render takes
\* &self and the Engine has no field it writes, so these are all a call has.
call_new(template_path, value) ==
    [entry |-> template_path, data |-> value, pc |-> "start", visited |-> {},
     stack |-> <<>>, resolved_nodes |-> <<>>, context |-> Context_new(Null),
     next_node |-> 1, body |-> <<>>, result |-> NoResult]

\* visited_of with the defect of one visited set kept for every call on the Engine.
visited_shared(cs, i) == visited \cup UNION {cs[j].visited : j \in DOMAIN cs}

\* let mut visited = HashSet::new(): the set call i threads through its own
\* resolve_with_tracking calls is a local of that call.
visited_of(cs, i) == cs[i].visited

call_top(c) == c.stack[Len(c.stack)]

\* Enter, on the locals of call c.
call_entered(c, callers, r) ==
    IF r.ok
    THEN [c EXCEPT !.visited = r.visited, !.stack = Append(callers, r.frame),
                   !.pc = "resolve"]
    ELSE [c EXCEPT !.visited = r.visited, !.stack = <<>>, !.pc = "done",
                   !.result = Err(r.err)]

\* ResolvePush, on the locals of call c.
call_pushed(c, node) ==
    [c EXCEPT !.stack = [@ EXCEPT ![Len(@)] =
                            [@ EXCEPT !.resolved_nodes = Append(@, node), !.next = @ + 1]]]

\* ResolveReturn, on the locals of call c.
call_returned(c, seen, top) ==
    IF Len(c.stack) > 1
    THEN [c EXCEPT !.visited = visited_remove(seen, top.template_path),
                   !.stack = Append(SubSeq(@, 1, Len(@) - 2),
                                    [@[Len(@) - 1] EXCEPT
                                        !.resolved_nodes =
                                            @ \o inject_blocks(top.resolved_nodes,
                                                               c.stack[Len(c.stack) - 1].blocks),
                                        !.next = @ + 1])]
    ELSE [c EXCEPT !.visited = visited_remove(seen, top.template_path),
                   !.stack = <<>>,
                   !.resolved_nodes = top.resolved_nodes,
                   !.pc = "render"]

\* RenderNode, on the locals of call c.
call_rendered(c, r) ==
    [c EXCEPT !.body = @ \o r.out, !.context = r.context, !.next_node = @ + 1]

\* What a step of another call leaves alone: the files and this call's locals.
ThisCall == <<store, entry, data, pc, visited, stack, resolved_nodes, context,
              next_node, body, result>>

\* Call i enters Engine::render on the shared &self.
ConcurrentRenderCall(i) ==
    /\ calls[i].pc = "start"
    /\ calls' = [calls EXCEPT ![i] =
                    call_entered([calls[i] EXCEPT !.context = Context_new(calls[i].data)],
                                 <<>>,
                                 resolve_enter(store, calls[i].entry, visited_of(calls, i)))]
    /\ UNCHANGED ThisCall

ConcurrentResolveLoad(i) ==
    /\ calls[i].pc = "resolve"
    /\ call_top(calls[i]).next <= Len(call_top(calls[i]).nodes)
    /\ IsLoad(call_top(calls[i]).nodes[call_top(calls[i]).next])
    /\ calls' = [calls EXCEPT ![i] =
                    call_entered(calls[i], calls[i].stack,
                                 resolve_enter(store,
                                               call_top(calls[i]).nodes[call_top(calls[i]).next]
                                                   .attrs[<<"f","i","l","e">>],
                                               visited_of(calls, i)))]
    /\ UNCHANGED ThisCall

ConcurrentResolvePush(i) ==
    /\ calls[i].pc = "resolve"
    /\ call_top(calls[i]).next <= Len(call_top(calls[i]).nodes)
    /\ ~IsLoad(call_top(calls[i]).nodes[call_top(calls[i]).next])
    /\ calls' = [calls EXCEPT ![i] =
                    call_pushed(calls[i], call_top(calls[i]).nodes[call_top(calls[i]).next])]
    /\ UNCHANGED ThisCall

ConcurrentResolveReturn(i) ==
    /\ calls[i].pc = "resolve"
    /\ call_top(calls[i]).next > Len(call_top(calls[i]).nodes)
    /\ calls' = [calls EXCEPT ![i] =
                    call_returned(calls[i], visited_of(calls, i), call_top(calls[i]))]
    /\ UNCHANGED ThisCall

ConcurrentRenderNode(i) ==
    /\ calls[i].pc = "render"
    /\ calls[i].next_node <= Len(calls[i].resolved_nodes)
    /\ calls' = [calls EXCEPT ![i] =
                    call_rendered(calls[i],
                                  render_node(calls[i].resolved_nodes[calls[i].next_node],
                                              calls[i].context))]
    /\ UNCHANGED ThisCall

ConcurrentRenderReturn(i) ==
    /\ calls[i].pc = "render"
    /\ calls[i].next_node > Len(calls[i].resolved_nodes)
    /\ \E order \in HeadOrders :
          calls' = [calls EXCEPT ![i] =
                       [calls[i] EXCEPT !.result = Ok(wrap_html(Engine_new, calls[i].body, order)),
                                        !.pc = "done"]]
    /\ UNCHANGED ThisCall

\* Every call on the Engine takes its steps in any order with the others.
ConcurrentNext ==
    \/ Next
    \/ \E i \in DOMAIN calls : ConcurrentRenderCall(i)
    \/ \E i \in DOMAIN calls : ConcurrentResolveLoad(i)
    \/ \E i \in DOMAIN calls : ConcurrentResolvePush(i)
    \/ \E i \in DOMAIN calls : ConcurrentResolveReturn(i)
    \/ \E i \in DOMAIN calls : ConcurrentRenderNode(i)
    \/ \E i \in DOMAIN calls : ConcurrentRenderReturn(i)
(***************************************************************************)
(* Render calls checked                                                    *)
(*                                                                         *)
(* A render call is a template store, an entry path and a data tree.       *)
(***************************************************************************)
Scenario(files, path, value) == [store |-> files, entry |-> path, data |-> value]

NoData == Object(EmptyMap)

load_directive(file) == <<"<","?","l","o","a","d"," ","f","i","l","e","=","\"">> \o file \o <<"\"","?",">">>

\* ---- Load graphs: four templates A, B, C, D that load one another ----

\* The most load directives in the entry template A.
MaxLoads == 2

A == <<"A">>

B == <<"B">>

C == <<"C">>

D == <<"D">>

LoadTargets == {A, B, C, D}

LoadLists(max) == UNION {[1..n -> LoadTargets] : n \in 0..max}

\* A template: its own text, its loads in order, and a closing text.
graph_template(text, loads) ==
    text \o Flatten([i \in 1..Len(loads) |-> load_directive(loads[i])]) \o <<";">>

LoadGraphStores ==
    {(A :> graph_template(<<"a">>, la)) @@ (B :> graph_template(<<"b">>, lb))
        @@ (C :> graph_template(<<"c">>, lc)) @@ (D :> graph_template(<<"d">>, ld)) :
     la \in LoadLists(MaxLoads), lb \in LoadLists(1), lc \in LoadLists(1),
     ld \in {<<>>, <<A>>}}

LoadGraphCalls == {Scenario(s, A, NoData) : s \in LoadGraphStores}

\* ---- Inheritance: a page that loads a layout and fills its slot ----
Layout == <<"l","a","y","o","u","t","s","/","b","a","s","e",".","h","r","m","l">>

Page == <<"p","a","g","e","s","/","t","e","s","t",".","h","r","m","l">>

SlotNames == {<<"c","o","n","t","e","n","t">>, <<"s","i","d","e">>}

slot_directive(id, default) == <<"<","?","s","l","o","t"," ","i","d","=","\"">> \o id \o <<"\"","?",">">> \o default \o <<"<","/","?","s","l","o","t","?",">">>

block_directive(slot, content) ==
    <<"<","?","b","l","o","c","k"," ","s","l","o","t","=","\"">> \o slot \o <<"\"","?",">">> \o content \o <<"<","/","?","b","l","o","c","k","?",">">>

Layouts(id) ==
    {<<"<","d","i","v",">">> \o slot_directive(id, <<"D","e","f","a","u","l","t">>) \o <<"<","/","d","i","v",">">>,
     <<"<","?","s","e","c","t","i","o","n","?",">","[">> \o slot_directive(id, <<"D","e","f","a","u","l","t">>) \o <<"]","<","/","?","s","e","c","t","i","o","n","?",">">>,
     slot_directive(id, <<"D","e","f","a","u","l","t">>) \o <<"|">> \o slot_directive(<<"o","t","h","e","r">>, <<"O","t","h","e","r">>)}

Pages(slot) ==
    {load_directive(Layout) \o block_directive(slot, <<"<","h","1",">","X","<","/","h","1",">">>),
     block_directive(slot, <<"<","h","1",">","X","<","/","h","1",">">>) \o <<"\n">> \o load_directive(Layout)}

InheritanceCalls ==
    {Scenario((Layout :> layout) @@ (Page :> page), Page, NoData) :
     layout \in UNION {Layouts(id) : id \in SlotNames},
     page \in UNION {Pages(slot) : slot \in SlotNames}}

\* The templates of test_slot_and_block_replacement.
TestLayout ==
    <<"<","d","i","v"," ","c","l","a","s","s","=","\"","l","a","y","o","u","t","\"",">","\n","<","?","s","l","o","t"," ","i","d","=","\"","c","o","n","t","e","n","t","\"","?",">","\n"," "," "," "," ","<","p",">","D","e","f","a","u","l","t"," ","c","o","n","t","e","n","t","<","/","p",">","\n","<","/","?","s","l","o","t","?",">","\n","<","/","d","i","v",">">>

TestPage ==
    <<"<","?","l","o","a","d"," ","f","i","l","e","=","\"","l","a","y","o","u","t","s","/","b","a","s","e",".","h","r","m","l","\"","?",">","\n","\n","<","?","b","l","o","c","k"," ","s","l","o","t","=","\"","c","o","n","t","e","n","t","\"","?",">","\n"," "," "," "," ","<","h","1",">","T","e","s","t"," ","P","a","g","e","<","/","h","1",">","\n"," "," "," "," ","<","p",">","C","u","s","t","o","m"," ","c","o","n","t","e","n","t","<","/","p",">","\n","<","/","?","b","l","o","c","k","?",">">>

TestCalls == {Scenario((Layout :> TestLayout) @@ (Page :> TestPage), Page, NoData)}

\* ---- Variables: templates made of set and get fragments ----
Main == <<"i","n","d","e","x",".","h","r","m","l">>

\* The most fragments in a template of set and get fragments.
MaxFragments == 3

Fragments ==
    {<<"<","?","s","e","t"," ","i","d","=","\"","k","\"","?",">","A","<","/","?","s","e","t","?",">">>,
     <<"<","?","s","e","t"," ","i","d","=","\"","k","\"","?",">","B","<","?","g","e","t"," ","i","d","=","\"","j","\"","?",">","<","/","?","s","e","t","?",">">>,
     <<"<","?","s","e","t"," ","i","d","=","\"","j","\"","?",">","C","<","/","?","s","e","t","?",">">>,
     <<"<","?","g","e","t"," ","i","d","=","\"","k","\"","?",">">>,
     <<"-">>,
     <<"<","?","i","f"," ","c","o","n","d","=","\"","k","\"","?",">","<","?","s","e","t"," ","i","d","=","\"","k","\"","?",">","D","<","/","?","s","e","t","?",">","<","/","?","i","f","?",">">>}

FragmentLists(max) == UNION {[1..n -> Fragments] : n \in 0..max}

\* The template of test_set_and_get.
TestSetGet == <<"<","?","s","e","t"," ","i","d","=","\"","u","s","e","r","n","a","m","e","\"","?",">","A","l","i","c","e","<","/","?","s","e","t","?",">","<","p",">","H","e","l","l","o",","," ","<","?","g","e","t"," ","i","d","=","\"","u","s","e","r","n","a","m","e","\"","?",">","!","<","/","p",">">>

\* The void form of set, with the value in an attribute and no closing sequence,
\* then text and a get.
VoidSet == <<"<","?","s","e","t"," ","i","d","=","\"","k","\""," ","v","a","l","u","e","=","\"","V","\"","?",">","a","f","t","e","r","<","?","g","e","t"," ","i","d","=","\"","k","\"","?",">">>

SetGetTemplates ==
    {Flatten(l) : l \in FragmentLists(MaxFragments)} \cup {TestSetGet, VoidSet}

SetGetData == {NoData, Object(<<"k">> :> String(<<"E">>))}

SetGetCalls == {Scenario(Main :> t, Main, d) : t \in SetGetTemplates, d \in SetGetData}

\* ---- Lookup: a dotted key set and read over data that holds the same path ----
OverlayFragments ==
    {<<"<","?","s","e","t"," ","i","d","=","\"","a",".","b","\"","?",">","O","<","/","?","s","e","t","?",">">>,
     <<"<","?","s","e","t"," ","i","d","=","\"","a",".","b","\"","?",">","<","/","?","s","e","t","?",">">>,
     <<"<","?","g","e","t"," ","i","d","=","\"","a",".","b","\"","?",">">>}

OverlayTemplates == {Flatten(l) : l \in UNION {[1..n -> OverlayFragments] : n \in 1..3}}

OverlayData == {NoData, Object(<<"a">> :> Object(<<"b">> :> String(<<"x">>)))}

OverlayCalls == {Scenario(Main :> t, Main, d) : t \in OverlayTemplates, d \in OverlayData}

\* ---- Paths: one get of a dotted key over a data tree ----
PathKeys ==
    {<<"a">>, <<"a",".","b">>, <<"a",".","c">>, <<"a",".","z">>, <<"a",".","b",".","c">>, <<"a",".",".","b">>, <<"n">>, <<"n",".","x">>, <<"t">>, <<"s">>,
     <<"s",".","x">>, <<"l">>, <<"l",".","0">>, <<"z">>, <<>>}

Tree ==
    Object(<<"a">> :> Object(<<"b">> :> String(<<"x">>) @@ <<"c">> :> Null)
           @@ <<"n">> :> Number(70) @@ <<"t">> :> Bool(FALSE) @@ <<"s">> :> String(<<"s","t","r">>)
           @@ <<"l">> :> Array(<<String(<<"p">>)>>))

PathData == {Tree, NoData, Null, String(<<"t","o","p">>), Array(<<Tree>>)}

PathCalls ==
    {Scenario(Main :> (<<"<","?","g","e","t"," ","i","d","=","\"">> \o k \o <<"\"","?",">",";">>), Main, d) :
        k \in PathKeys, d \in PathData}

\* ---- Desugaring: one btn, link or form element ----
\* The template of test_btn_processing.
TestBtn ==
    <<"<","?","b","t","n"," ","p","o","s","t","=","\"","/","a","p","i","/","i","n","c","r","e","m","e","n","t","\""," ","t","a","r","g","e","t","=","\"","#","c","o","u","n","t","e","r","\""," ","s","w","a","p","=","\"","i","n","n","e","r","H","T","M","L","\"","?",">","\n"," "," "," "," ","C","l","i","c","k"," ","M","e","\n","<","/","?","b","t","n","?",">">>

element_directive(name, attrs, children) ==
    <<"<","?">> \o name \o attrs \o <<"?",">">> \o children \o <<"<","/","?">> \o name \o <<"?",">">>

BtnAttrs ==
    {<<>>, <<" ","p","o","s","t","=","\"","/","p","\"">>, <<" ","g","e","t","=","\"","/","g","\"">>, <<" ","g","e","t","=","\"","/","g","\""," ","p","o","s","t","=","\"","/","p","\"">>,
     <<" ","g","e","t","=","\"","/","g","\""," ","t","a","r","g","e","t","=","\"","#","t","\"">>, <<" ","p","o","s","t","=","\"","/","p","\""," ","s","w","a","p","=","\"","o","u","t","e","r","H","T","M","L","\"">>}

BtnChildren == {<<"G","o">>, <<"<","?","g","e","t"," ","i","d","=","\"","k","\"","?",">","!">>, <<>>}

BtnTemplates ==
    {<<"-">> \o element_directive(<<"b","t","n">>, a, c) \o <<"-">> : a \in BtnAttrs, c \in BtnChildren}
    \cup {TestBtn}

\* A link directive with children and its closing sequence.
LinkWithChildren ==
    element_directive(<<"l","i","n","k">>, <<" ","g","e","t","=","\"","/","u","\""," ","t","a","r","g","e","t","=","\"","#","t","\""," ","s","w","a","p","=","\"","o","u","t","e","r","H","T","M","L","\"">>, <<"t","e","x","t">>)

\* The template of test_form_processing.
TestForm ==
    <<"<","?","f","o","r","m"," ","p","o","s","t","=","\"","/","a","p","i","/","s","u","b","m","i","t","\""," ","t","a","r","g","e","t","=","\"","#","r","e","s","u","l","t","\"","?",">","\n"," "," "," "," ","<","i","n","p","u","t"," ","t","y","p","e","=","\"","t","e","x","t","\""," ","n","a","m","e","=","\"","n","a","m","e","\"",">","\n"," "," "," "," ","<","b","u","t","t","o","n"," ","t","y","p","e","=","\"","s","u","b","m","i","t","\"",">","S","u","b","m","i","t","<","/","b","u","t","t","o","n",">","\n","<","/","?","f","o","r","m","?",">">>

FormAttrs ==
    {<<>>, <<" ","p","o","s","t","=","\"","/","p","\"">>, <<" ","p","o","s","t","=","\"","/","p","\""," ","t","a","r","g","e","t","=","\"","#","t","\"">>, <<" ","p","o","s","t","=","\"","/","p","\""," ","s","w","a","p","=","\"","o","u","t","e","r","H","T","M","L","\"">>}

FormChildren == {<<"<","i","n","p","u","t"," ","n","a","m","e","=","\"","n","\"",">">>, <<"<","b",">","<","?","g","e","t"," ","i","d","=","\"","k","\"","?",">","<","/","b",">">>, <<>>}

FormTemplates ==
    {<<"-">> \o element_directive(<<"f","o","r","m">>, a, c) \o <<"-">> : a \in FormAttrs, c \in FormChildren}
    \cup {TestForm}

\* The template of the passthrough example.
FooBar == <<"<","?","f","o","o","?",">","b","a","r","<","/","?","f","o","o","?",">">>

OtherTemplates ==
    {FooBar,
     <<"-","<","?","f","o","o"," ","a","=","\"","1","\"","?",">","x","<","?","g","e","t"," ","i","d","=","\"","k","\"","?",">","y","<","/","?","f","o","o","?",">","-">>,
     <<"<","?","f","o","o","?",">","<","?","b","a","z","?",">","i","n","<","/","?","b","a","z","?",">","o","u","t","<","/","?","f","o","o","?",">">>,
     <<"<","?","f","o","o","?",">","<","/","?","f","o","o","?",">">>,
     <<"<","?","f","o","o","?",">","b","a","r">>,
     <<"<","?","d","i","v"," ","c","l","a","s","s","=","\"","c","\"","?",">","<","?","s","e","t"," ","i","d","=","\"","j","\"","?",">","v","<","/","?","s","e","t","?",">","<","/","?","d","i","v","?",">","<","?","g","e","t"," ","i","d","=","\"","j","\"","?",">">>}

DesugarData == {NoData, Object(<<"k">> :> String(<<"E">>))}

LinkCalls == {Scenario(Main :> LinkWithChildren, Main, d) : d \in DesugarData}

FormCalls == {Scenario(Main :> t, Main, d) : t \in FormTemplates, d \in DesugarData}

OtherCalls == {Scenario(Main :> t, Main, d) : t \in OtherTemplates, d \in DesugarData}

BtnCalls == {Scenario(Main :> t, Main, d) : t \in BtnTemplates, d \in DesugarData}

\* ---- Conditionals: one if element over a condition and a list of children ----
IfConds == {<<"a","=","=","b">>, <<"a"," ","=","="," ","'","b","'">>, <<"a","=","=","b","=","=","c">>, <<"a">>, <<"b">>}

IfBodies ==
    {<<"T","<","?","e","l","s","e","?",">","F">>, <<"T">>, <<"<","?","e","l","s","e","?",">","F">>, <<"T","<","?","e","l","s","e","?",">","F","<","?","e","l","s","e","?",">","G">>,
     <<"T","<","?","s","e","t"," ","i","d","=","\"","k","\"","?",">","v","<","/","?","s","e","t","?",">","<","?","e","l","s","e","?",">","F","<","?","g","e","t"," ","i","d","=","\"","k","\"","?",">">>}

if_directive(cond, children) ==
    <<"<","?","i","f"," ","c","o","n","d","=","\"">> \o cond \o <<"\"","?",">">> \o children \o <<"<","/","?","i","f","?",">">>

\* The conditional as spec.md writes it, with else as an element after the if.
ElseAfterIf == <<"<","?","i","f"," ","c","o","n","d","=","\"","a","=","=","b","\"","?",">","T","<","/","?","i","f","?",">","<","?","e","l","s","e","?",">","F","<","/","?","e","l","s","e","?",">">>

IfTemplates == {if_directive(c, b) : c \in IfConds, b \in IfBodies} \cup {ElseAfterIf}

IfData ==
    {NoData,
     Object(<<"a">> :> String(<<"b">>) @@ <<"b">> :> String(<<"x">>)),
     Object(<<"a">> :> String(<<"1">>) @@ <<"b">> :> String(<<"1">>)),
     Object(<<"a">> :> String(<<"1">>) @@ <<"b">> :> String(<<"2">>)),
     Object(<<"a">> :> Number(12) @@ <<"b">> :> Bool(TRUE)),
     Object(<<"a">> :> String(<<"b","=","=","c">>))}

\* An if that sets k in either branch, or in an if nested in it, and reads of k
\* after it.
SetInIf(cond) ==
    if_directive(cond, <<"<","?","s","e","t"," ","i","d","=","\"","k","\"","?",">","v","<","/","?","s","e","t","?",">","<","?","e","l","s","e","?",">","<","?","s","e","t"," ","i","d","=","\"","k","\"","?",">","w","<","/","?","s","e","t","?",">">>)
    \o <<"<","?","g","e","t"," ","i","d","=","\"","k","\"","?",">","|","<","?","g","e","t"," ","i","d","=","\"","k","\"","?",">">>

SetInNestedIf(outer, inner) ==
    if_directive(outer, if_directive(inner, <<"<","?","s","e","t"," ","i","d","=","\"","k","\"","?",">","v","<","/","?","s","e","t","?",">">>))
    \o <<"<","?","g","e","t"," ","i","d","=","\"","k","\"","?",">">>

IfSetTemplates ==
    {SetInIf(c) : c \in {<<"a">>, <<"z">>}}
    \cup {SetInNestedIf(c, d) : c, d \in {<<"a">>, <<"z">>}}

IfCalls ==
    {Scenario(Main :> t, Main, d) : t \in IfTemplates \cup IfSetTemplates, d \in IfData}

\* ---- Loops: one for element over a collection of the data ----
for_directive(attrs, children) == <<"<","?","f","o","r">> \o attrs \o <<"?",">">> \o children \o <<"<","/","?","f","o","r","?",">">>

\* A loop body that reads k and then sets it, and what follows the loop: reads of
\* k and of the loop variable.
SetInFor ==
    for_directive(<<" ","i","n","=","\"","x"," ","i","n"," ","x","s","\"">>, <<"<","?","g","e","t"," ","i","d","=","\"","k","\"","?",">","<","?","s","e","t"," ","i","d","=","\"","k","\"","?",">","v","<","/","?","s","e","t","?",">",";">>)
    \o <<"<","?","g","e","t"," ","i","d","=","\"","k","\"","?",">","<","?","g","e","t"," ","i","d","=","\"","x","\"","?",">","|">>

ForTemplates ==
    {for_directive(<<" ","i","n","=","\"","x"," ","i","n"," ","x","s","\"">>, <<"[","<","?","g","e","t"," ","i","d","=","\"","x","\"","?",">","]">>),
     for_directive(<<" ","i","n","=","\"","x"," ","i","n"," ","m","i","s","s","i","n","g","\"">>, <<"[","<","?","g","e","t"," ","i","d","=","\"","x","\"","?",">","]">>),
     for_directive(<<>>, <<"[","<","?","g","e","t"," ","i","d","=","\"","i","t","e","m","\"","?",">","]">>),
     SetInFor,
     <<"<","?","s","e","t"," ","i","d","=","\"","k","\"","?",">","o","<","/","?","s","e","t","?",">">> \o SetInFor}

ForData ==
    {NoData,
     Object(<<"x","s">> :> Array(<<>>)),
     Object(<<"x","s">> :> Array(<<String(<<"p">>), String(<<"q">>)>>))}

ForCalls == {Scenario(Main :> t, Main, d) : t \in ForTemplates, d \in ForData}

\* ---- Parser inputs: closing sequences nobody opened, and truncated templates ----
StrayTemplates ==
    {<<"a","<","/","?","x","?",">","b">>,
     <<"<","?","f","o","o","?",">","a","<","/","?","x","?",">","b","<","/","?","f","o","o","?",">">>,
     <<"<","?","a","?",">","<","?","b","?",">","x","<","/","?","a","?",">","y">>}

\* A template with text, an element with a quoted and an unquoted attribute, a
\* void element with a quoted attribute and a closing sequence.
Whole == <<"a","<","?","f","o","o"," ","k","=","\"","v","\""," ","j","=","w","?",">","b","<","?","g","e","t"," ","i","d","=","'","k","'","?",">","<","/","?","f","o","o","?",">","c">>

\* The template cut off after each of its characters.
Prefixes(chars) == {SubSeq(chars, 1, n) : n \in 0..Len(chars)}

ParserTemplates == StrayTemplates \cup Prefixes(Whole)

ParserCalls == {Scenario(Main :> t, Main, NoData) : t \in ParserTemplates}

\* ---- Failures on the load chain: a file that is not there, a parse guard ----
Gone == <<"g","o","n","e",".","h","r","m","l">>

Partial == <<"p","a","r","t","i","a","l","s","/","n","a","v",".","h","r","m","l">>

FailureStores ==
    {Main :> (<<"h","e","a","d">> \o load_directive(Gone) \o <<"t","a","i","l">>),
     (Main :> (<<"h","e","a","d">> \o load_directive(Partial) \o <<"t","a","i","l">>))
         @@ (Partial :> (<<"n","a","v">> \o load_directive(Gone))),
     (Main :> (<<"h","e","a","d">> \o load_directive(Partial) \o <<"t","a","i","l">>))
         @@ (Partial :> <<"n","a","v","<","/","?","x","?",">">>),
     (Main :> (<<"h","e","a","d">> \o load_directive(Partial) \o <<"t","a","i","l">>))
         @@ (Partial :> (<<"n","a","v">> \o load_directive(Main))),
     (Main :> (<<"h","e","a","d">> \o load_directive(Partial) \o <<"t","a","i","l">>))
         @@ (Partial :> <<"n","a","v">>)}

FailureCalls == {Scenario(s, Main, NoData) : s \in FailureStores}

\* ---- Composition: slots inside elements and slots, three levels of load, loads
\* ---- inside an element and inside a block
NestedSlots ==
    <<"<","?","d","i","v","?",">","<","?","s","l","o","t"," ","i","d","=","\"","a","\"","?",">","A","<","?","s","l","o","t"," ","i","d","=","\"","b","\"","?",">","B","<","/","?","s","l","o","t","?",">","<","/","?","s","l","o","t","?",">","|","<","?","s","l","o","t"," ","i","d","=","\"","b","\"","?",">","C","<","/","?","s","l","o","t","?",">","<","/","?","d","i","v","?",">","<","?","s","l","o","t","?",">","N","<","/","?","s","l","o","t","?",">">>

NestedSlotPages ==
    {load_directive(Layout),
     load_directive(Layout) \o block_directive(<<"a">>, <<"X">>),
     load_directive(Layout) \o block_directive(<<"b">>, <<"Y">>),
     load_directive(Layout) \o block_directive(<<"a">>, <<"X">>) \o block_directive(<<"b">>, <<"Y">>)}

\* The templates of test_nested_load.
Nav == <<"c","o","m","p","o","n","e","n","t","s","/","n","a","v",".","h","r","m","l">>

WithNav == <<"l","a","y","o","u","t","s","/","w","i","t","h","_","n","a","v",".","h","r","m","l">>

Nested == <<"p","a","g","e","s","/","n","e","s","t","e","d",".","h","r","m","l">>

TestNav == <<"<","n","a","v",">","\n"," "," "," "," ","<","a"," ","h","r","e","f","=","\"","/","\"",">","H","o","m","e","<","/","a",">","\n"," "," "," "," ","<","a"," ","h","r","e","f","=","\"","/","a","b","o","u","t","\"",">","A","b","o","u","t","<","/","a",">","\n","<","/","n","a","v",">">>

TestWithNav ==
    <<"<","?","l","o","a","d"," ","f","i","l","e","=","\"","c","o","m","p","o","n","e","n","t","s","/","n","a","v",".","h","r","m","l","\"","?",">","\n","<","m","a","i","n",">","\n","<","?","s","l","o","t"," ","i","d","=","\"","c","o","n","t","e","n","t","\"","?",">","\n"," "," "," "," ","<","p",">","D","e","f","a","u","l","t","<","/","p",">","\n","<","/","?","s","l","o","t","?",">","\n","<","/","m","a","i","n",">">>

TestNested ==
    <<"<","?","l","o","a","d"," ","f","i","l","e","=","\"","l","a","y","o","u","t","s","/","w","i","t","h","_","n","a","v",".","h","r","m","l","\"","?",">","\n","\n","<","?","b","l","o","c","k"," ","s","l","o","t","=","\"","c","o","n","t","e","n","t","\"","?",">","\n"," "," "," "," ","<","h","1",">","N","e","s","t","e","d"," ","P","a","g","e","<","/","h","1",">","\n","<","/","?","b","l","o","c","k","?",">">>

\* A layout with two slots, a page that loads it and fills one of them or none,
\* and an entry template that loads the page and has blocks for both.
TwoSlots == <<"[","<","?","s","l","o","t"," ","i","d","=","\"","s","\"","?",">","S","<","/","?","s","l","o","t","?",">","|","<","?","s","l","o","t"," ","i","d","=","\"","t","\"","?",">","T","<","/","?","s","l","o","t","?",">","]">>

MiddlePages ==
    {load_directive(Layout),
     load_directive(Layout) \o block_directive(<<"t">>, <<"M">>)}

Outer == load_directive(Page) \o block_directive(<<"s">>, <<"O">>) \o block_directive(<<"t">>, <<"P">>)

\* Loads that are not at the top level of their template.
LoadInElement == <<"<","?","d","i","v","?",">">> \o load_directive(Partial) \o <<"<","/","?","d","i","v","?",">">> \o load_directive(Partial)

LoadInBlock == load_directive(Layout) \o block_directive(<<"c","o","n","t","e","n","t">>, load_directive(Partial))

CompositionCalls ==
    {Scenario((Layout :> NestedSlots) @@ (Page :> page), Page, NoData) : page \in NestedSlotPages}
    \cup {Scenario((Nav :> TestNav) @@ (WithNav :> TestWithNav) @@ (Nested :> TestNested),
                   Nested, NoData)}
    \cup {Scenario((Layout :> TwoSlots) @@ (Page :> page) @@ (Main :> Outer), Main, NoData) :
          page \in MiddlePages}
    \cup {Scenario((Main :> LoadInElement) @@ (Partial :> <<"n","a","v">>), Main, NoData),
          Scenario((Page :> LoadInBlock) @@ (Partial :> <<"n","a","v">>)
                       @@ (Layout :> slot_directive(<<"c","o","n","t","e","n","t">>, <<"D","e","f","a","u","l","t">>)),
                   Page, NoData)}

Calls ==
    LoadGraphCalls \cup InheritanceCalls \cup TestCalls \cup SetGetCalls \cup IfCalls
    \cup ForCalls \cup OverlayCalls \cup PathCalls
    \cup BtnCalls \cup LinkCalls \cup FormCalls
    \cup OtherCalls \cup ParserCalls \cup FailureCalls
    \cup CompositionCalls

\* One render call, and no other call on its Engine.
Init == \E scenario \in Calls : InitCall(scenario) /\ calls = <<>>

Spec == Init /\ [][Next]_vars

\* ---- Several render calls on one Engine ----
MaxOthers == 1

OwnData == <<"<","?","g","e","t"," ","i","d","=","\"","k","\"","?",">","<","?","s","e","t"," ","i","d","=","\"","k","\"","?",">","S","<","/","?","s","e","t","?",">","<","?","g","e","t"," ","i","d","=","\"","k","\"","?",">">>

\* A call of path with value, and the calls the Engine may be given with it.
ConcurrentOn(files, path, value, values) ==
    {[this |-> Scenario(files, path, value), others |-> others] :
     others \in [1..MaxOthers -> {call_new(p, v) : p \in DOMAIN files, v \in values}]}

ConcurrentCalls ==
    ConcurrentOn(Main :> OwnData, Main, NoData, SetGetData)
    \cup ConcurrentOn((Layout :> <<"<","d","i","v",">">> \o slot_directive(<<"c","o","n","t","e","n","t">>, <<"D","e","f","a","u","l","t">>) \o <<"<","/","d","i","v",">">>)
                      @@ (Page :> load_directive(Layout)
                                  \o block_directive(<<"c","o","n","t","e","n","t">>, <<"<","h","1",">","X","<","/","h","1",">">>)),
                      Page, NoData, {NoData})
    \cup ConcurrentOn((Main :> <<"a">> \o load_directive(Partial))
                      @@ (Partial :> <<"b">> \o load_directive(Main)),
                      Main, NoData, {NoData})
    \cup ConcurrentOn((Main :> load_directive(Partial) \o <<"m">>)
                      @@ (Partial :> <<"n","a","v">> \o load_directive(Gone)),
                      Main, NoData, {NoData})

ConcurrentInit ==
    \E scenario \in ConcurrentCalls : InitCall(scenario.this) /\ calls = scenario.others

ConcurrentSpec == ConcurrentInit /\ [][ConcurrentNext]_vars

(***************************************************************************)
(* Properties                                                              *)
(*                                                                         *)
(* What the properties read off a state: the template texts are parsed     *)
(* again to tell what a template is made of, and the expected output is    *)
(* computed from the texts, not from the resolver's or renderer's state.   *)
(***************************************************************************)
\* The nodes a template text parses to; none when it does not parse.
NodesOf(path) == IF path \in DOMAIN store THEN parse(store[path]).nodes ELSE <<>>

\* The text of a list of nodes that are all Text.
PlainText(nodes) ==
    Flatten([i \in 1..Len(nodes) |->
                IF nodes[i].type = "Text" THEN nodes[i].text ELSE <<>>])

Blank(node) == node.type = "Text" /\ trim(node.text) = <<>>

\* The paths of the calls of resolve_with_tracking that are active.
ChainPaths == {stack[i].template_path : i \in 1..Len(stack)}

\* render_nodes is about to render a node of the resolved tree.
Rendering == pc = "render" /\ next_node <= Len(resolved_nodes)

\* The node it is about to render.
Current == resolved_nodes[next_node]

\* ---- C1 ----
\* The slot elements with id slot in a tree, in document order.
RECURSIVE SlotsIn(_, _)
SlotsIn(nodes, slot) ==
    IF nodes = <<>> THEN <<>>
    ELSE (IF IsElement(Head(nodes), <<"s","l","o","t">>) /\ ContainsKey(Head(nodes).attrs, <<"i","d">>)
             /\ Head(nodes).attrs[<<"i","d">>] = slot
          THEN <<Head(nodes)>>
          ELSE IF Head(nodes).type = "Element" THEN SlotsIn(Head(nodes).children, slot)
          ELSE <<>>)
         \o SlotsIn(Tail(nodes), slot)

\* nodes[i] loads a parent and nodes[j] is a block with content for a slot, and
\* nothing else but blank text is at the top level.
ChildAt(nodes, i, j) ==
    /\ IsLoad(nodes[i])
    /\ IsElement(nodes[j], <<"b","l","o","c","k">>) /\ ContainsKey(nodes[j].attrs, <<"s","l","o","t">>)
    /\ PlainText(nodes[j].children) # <<>>
    /\ \A k \in (1..Len(nodes)) \ {i, j} : Blank(nodes[k])

\* What C1 says of a block and the slots of the parent that have its slot id.
SlotReplaced(block, slots) ==
    (/\ slots # <<>>
     /\ \A s \in 1..Len(slots) : PlainText(slots[s].children) # <<>>)
    => /\ result.ok
       /\ Contains(body, PlainText(block.children))
       /\ \A s \in 1..Len(slots) : ~Contains(body, PlainText(slots[s].children))
       /\ ~Contains(body, <<"<","?","s","l","o","t">>)
       /\ ~Contains(body, <<"<","?","b","l","o","c","k">>)

\* The case of C1 for the nodes of the entry template; a template has a block
\* element only if its text has a block directive.
PageRendered(child) ==
    \A i, j \in 1..Len(child) :
        ChildAt(child, i, j)
        => SlotReplaced(child[j],
                        SlotsIn(NodesOf(child[i].attrs[<<"f","i","l","e">>]),
                                child[j].attrs[<<"s","l","o","t">>]))

\* C1: when the entry template is a top-level load of a parent plus a top-level
\* block for slot S, and the parent holds a slot S with default children, the
\* rendered body contains the block's content, does not contain the slot's
\* default content, and contains no <?slot or <?block directive text.
C1_SlotReplacedByBlock ==
    (pc = "done" /\ Contains(store[entry], <<"<","?","b","l","o","c","k">>)) => PageRendered(NodesOf(entry))

\* A page that loads the div layout and fills its slot has been rendered.
C1_Witness ==
    /\ pc = "done"
    /\ entry = Page
    /\ store[Page] = load_directive(Layout) \o block_directive(<<"c","o","n","t","e","n","t">>, <<"<","h","1",">","X","<","/","h","1",">">>)
    /\ store[Layout] = <<"<","d","i","v",">">> \o slot_directive(<<"c","o","n","t","e","n","t">>, <<"D","e","f","a","u","l","t">>) \o <<"<","/","d","i","v",">">>
    /\ body = <<"<","d","i","v",">","<","h","1",">","X","<","/","h","1",">","<","/","d","i","v",">">>

\* ---- C2 ----
\* The loop of resolve_with_tracking is at a load of a path on the active chain.
LoadsActivePath ==
    /\ pc = "resolve"
    /\ Top.next <= Len(Top.nodes)
    /\ IsLoad(Top.nodes[Top.next])
    /\ Top.nodes[Top.next].attrs[<<"f","i","l","e">>] \in ChainPaths

CircularStep ==
    LoadsActivePath
    => /\ pc' = "done"
       /\ ~result'.ok
       /\ result'.err.kind = "Circular template dependency detected"
       /\ result'.err.path = Top.nodes[Top.next].attrs[<<"f","i","l","e">>]

\* C2: whenever a load asks for a path that is on the active load chain, the
\* step ends the render call with the circular-dependency error naming that path.
C2_CircularLoadFails == [][CircularStep]_vars

\* A loads B and B loads A: the render call has ended with the error naming A.
C2_Witness ==
    /\ pc = "done"
    /\ entry = A
    /\ store[A] = graph_template(<<"a">>, <<B>>)
    /\ store[B] = graph_template(<<"b">>, <<A>>)
    /\ ~result.ok
    /\ result.err.kind = "Circular template dependency detected"
    /\ result.err.path = A

\* ---- C3 ----
\* More than the nodes any template of the store can have.
Wide == 2 + Len(store[CHOOSE p \in DOMAIN store : \A q \in DOMAIN store : Len(store[q]) <= Len(store[p])])

\* What the call at depth i still has to do: 1 + the nodes its loop has left,
\* and Wide when no call is active at that depth.
Left(i) ==
    IF i <= Len(stack) THEN Len(stack[i].nodes) - stack[i].next + 2 ELSE Wide

\* The work left as one number: the depths are its digits, outermost first.
RECURSIVE RankFrom(_)
RankFrom(i) == IF i = 0 THEN 0 ELSE RankFrom(i - 1) * (Wide + 1) + Left(i)

Rank == RankFrom(Cardinality(DOMAIN store))

\* C3: resolution terminates for every store and entry path: the chain of active
\* calls never grows beyond the number of templates, and every step of a
\* resolution that does not end it lowers a natural number, the work left.
C3_ResolutionTerminates ==
    /\ [](Len(stack) <= Cardinality(DOMAIN store))
    /\ [][(pc = "resolve" /\ pc' = "resolve") => (Rank' < Rank /\ Rank' >= 0)]_vars

\* A loads B and B loads itself: resolution has ended, with the error naming B.
C3_Witness ==
    /\ pc = "done"
    /\ entry = A
    /\ store[A] = graph_template(<<"a">>, <<B>>)
    /\ store[B] = graph_template(<<"b">>, <<B>>)
    /\ ~result.ok
    /\ result.err.path = B

\* ---- C4 ----
\* The top-level loads among the nodes of the template at path, as pairs of
\* loader and loaded.
LoadsIn(path, nodes) ==
    {<<path, nodes[i].attrs[<<"f","i","l","e">>]>> : i \in {k \in 1..Len(nodes) : IsLoad(nodes[k])}}

\* The top-level loads of the store's templates.
LoadEdges == UNION {LoadsIn(p, NodesOf(p)) : p \in DOMAIN store}

Loaded(edges, paths) == {e[2] : e \in {d \in edges : d[1] \in paths}}

\* The paths reached from a set of paths in at most n more loads.
RECURSIVE Reached(_, _, _)
Reached(edges, paths, n) ==
    IF n = 0 THEN paths ELSE Reached(edges, paths \cup Loaded(edges, paths), n - 1)

LoadedFrom(edges, path) == Reached(edges, Loaded(edges, {path}), Cardinality(DOMAIN store))

\* Every load chain from the entry template stays in the store and meets no path
\* twice.
Acyclic(edges) ==
    \A p \in {entry} \cup LoadedFrom(edges, entry) :
        p \in DOMAIN store /\ p \notin LoadedFrom(edges, p)

\* The entry template loads two templates that both load a third.
DiamondIn(edges) ==
    /\ \E b, c \in Loaded(edges, {entry}) :
           b # c /\ Loaded(edges, {b}) \cap Loaded(edges, {c}) # {}
    /\ Acyclic(edges)

\* A diamond takes four templates: the entry, the two it loads and the third.
Diamond == Cardinality(DOMAIN store) >= 4 /\ DiamondIn(LoadEdges)

\* The text a template of texts and loads composes to, every load replaced by
\* the text of the template it names.
RECURSIVE Expand(_, _)
Expand(path, fuel) ==
    LET nodes == NodesOf(path) IN
    Flatten([i \in 1..Len(nodes) |->
                IF nodes[i].type = "Text" THEN nodes[i].text
                ELSE IF IsLoad(nodes[i]) /\ fuel > 0
                THEN Expand(nodes[i].attrs[<<"f","i","l","e">>], fuel - 1)
                ELSE <<>>])

\* C4: when the entry template loads two templates that both load a third and no
\* load chain has a cycle, resolution succeeds and the body holds the third
\* template's content once under each of the two.
C4_DiamondResolves ==
    (pc = "done" /\ Diamond)
    => /\ result.ok
       /\ body = Expand(entry, Cardinality(DOMAIN store))

\* A loads B and C, which both load D: the call has ended with D under each.
C4_Witness ==
    /\ pc = "done"
    /\ entry = A
    /\ store[A] = graph_template(<<"a">>, <<B, C>>)
    /\ Diamond
    /\ store[D] = graph_template(<<"d">>, <<>>)
    /\ result.ok
    /\ body = <<"a","b","d",";",";","c","d",";",";",";">>

\* ---- C5 ----
\* C5: during a resolution the visited set is exactly the set of paths of the
\* active calls, one path per call; before the resolution and after its
\* successful end it is empty.
C5_VisitedIsActiveChain ==
    /\ pc = "start" => visited = {}
    /\ pc = "resolve" => visited = ChainPaths /\ Cardinality(visited) = Len(stack)
    /\ pc = "render" => visited = {}

\* A has had B loaded and returned, and is now inside its load of C.
C5_Witness ==
    /\ pc = "resolve"
    /\ Len(stack) = 2
    /\ stack[1].template_path = A
    /\ stack[1].next = 3
    /\ stack[2].template_path = C
    /\ visited = {A, C}

\* ---- C6 ----
\* Rendering node, or a node inside it, may set the variable key.
RECURSIVE SetsKey(_, _)
SetsKey(node, key) ==
    IF node.type = "Text" THEN FALSE
    ELSE IF node.name = <<"s","e","t">>
    THEN key = <<"i","d">> \/ (ContainsKey(node.attrs, <<"i","d">>) /\ node.attrs[<<"i","d">>] = key)
    ELSE IF node.type = "VoidElement" THEN FALSE
    ELSE \E i \in 1..Len(node.children) : SetsKey(node.children[i], key)

\* The node about to be rendered is a set element with an id.
SetCase == Rendering /\ IsElement(Current, <<"s","e","t">>) /\ ContainsKey(Current.attrs, <<"i","d">>)

\* The node about to be rendered is a get of a variable that has been set.
GetCase ==
    /\ Rendering
    /\ IsVoid(Current, <<"g","e","t">>)
    /\ ContainsKey(Current.attrs, <<"i","d">>)
    /\ ContainsKey(context.vars, Current.attrs[<<"i","d">>])

\* What C6 says of one step of the rendering.
SetGetStep ==
    /\ SetCase =>
          /\ body' = body
          /\ ContainsKey(context'.vars, Current.attrs[<<"i","d">>])
          /\ context'.vars[Current.attrs[<<"i","d">>]]
                = render_nodes(Current.children, context).out
    /\ GetCase =>
          /\ body' = body \o context.vars[Current.attrs[<<"i","d">>]]
          /\ context' = context
    /\ Rendering =>
          \A key \in DOMAIN context.vars :
              ~SetsKey(Current, key) =>
                  /\ ContainsKey(context'.vars, key)
                  /\ context'.vars[key] = context.vars[key]

\* The example of C6 and of test_set_and_get.
AliceRendered ==
    (pc = "done" /\ store[entry] = TestSetGet)
    => (result.ok /\ Contains(body, <<"<","p",">","H","e","l","l","o",","," ","A","l","i","c","e","!","<","/","p",">">>))

\* C6: rendering a set element with id K stores the rendered string of its
\* children under K and emits nothing; a get of K emits exactly the string stored
\* under K, which stays as it is until a node sets K again; the template of
\* test_set_and_get renders a body containing <p>Hello, Alice!</p>.
C6_SetGetRoundtrip == [][SetGetStep]_vars /\ []AliceRendered

\* k is set to A, emitted by a get, and set again to B: the body is A alone.
C6_Witness ==
    /\ pc = "render"
    /\ next_node = 4
    /\ store[entry] = <<"<","?","s","e","t"," ","i","d","=","\"","k","\"","?",">","A","<","/","?","s","e","t","?",">","<","?","g","e","t"," ","i","d","=","\"","k","\"","?",">","<","?","s","e","t"," ","i","d","=","\"","k","\"","?",">","B","<","?","g","e","t"," ","i","d","=","\"","j","\"","?",">","<","/","?","s","e","t","?",">">>
    /\ body = <<"A">>
    /\ context.vars[<<"k">>] = <<"B">>

\* ---- C7 ----
\* C7: when the looked-up values of a and b differ, the conditional with else
\* written as an element after the if renders the false branch only: the output
\* contains F and does not contain T.
C7_FalseBranchOnly ==
    (/\ pc = "done"
     /\ store[entry] = ElseAfterIf
     /\ Context_get(Context_new(data), <<"a">>) # Context_get(Context_new(data), <<"b">>))
    => (result.ok /\ Contains(body, <<"F">>) /\ ~Contains(body, <<"T">>))

\* ---- C8 ----
\* Where the separator first occurs in s, as a 0-based position; Len(s) if nowhere.
FirstAt(s, sep) ==
    LET hits == {i \in 0..(Len(s) - Len(sep)) : SubSeq(s, i + 1, i + Len(sep)) = sep}
    IN  IF hits = {} THEN Len(s) ELSE CHOOSE i \in hits : \A j \in hits : i <= j

\* The condition split once at the first ==: the context value of the left part
\* equals the right part with its surrounding quote characters stripped.
SplitOnce(cond, ctx) ==
    LET at == FirstAt(cond, <<"=","=">>)
        left == trim(SubSeq(cond, 1, at))
        right == trim_end_in(trim_start_in(trim(SubSeq(cond, at + 3, Len(cond))),
                                           {"\"", "'"}), {"\"", "'"})
    IN  Context_get(ctx, left) = right

\* The node about to be rendered is an if element whose cond contains ==.
EqualityCase ==
    /\ Rendering
    /\ IsElement(Current, <<"i","f">>)
    /\ ContainsKey(Current.attrs, <<"c","o","n","d">>)
    /\ Contains(Current.attrs[<<"c","o","n","d">>], <<"=","=">>)

\* C8: a cond that contains == is evaluated by splitting it once at the first
\* ==: it is true exactly when the context value of the left part equals the
\* right part without its quotes, also when == occurs more than once.
C8_SplitOnceAtFirst ==
    EqualityCase =>
        (eval_condition(Current.attrs[<<"c","o","n","d">>], context)
            <=> SplitOnce(Current.attrs[<<"c","o","n","d">>], context))

\* ---- C9 ----
\* The position of the first else marker among the children; one past the end
\* if there is none.
FirstElse(children) ==
    IF \E i \in 1..Len(children) : IsVoid(children[i], <<"e","l","s","e">>)
    THEN CHOOSE i \in 1..Len(children) :
             /\ IsVoid(children[i], <<"e","l","s","e">>)
             /\ \A j \in 1..(i - 1) : ~IsVoid(children[j], <<"e","l","s","e">>)
    ELSE Len(children) + 1

\* The branch C9 has an if element render.
Branch(node, ctx) ==
    IF eval_condition(GetOr(node.attrs, <<"c","o","n","d">>, <<>>), ctx)
    THEN SubSeq(node.children, 1, FirstElse(node.children) - 1)
    ELSE SubSeq(node.children, FirstElse(node.children) + 1, Len(node.children))

\* C9: rendering an if element emits one branch and never both: the children
\* before the first else marker when the condition is true, those after it when
\* it is false, nothing when it is false and there is no else marker.
C9_OneBranch ==
    [][(Rendering /\ IsElement(Current, <<"i","f">>))
       => body' = body \o render_nodes(Branch(Current, context), context).out]_vars

\* a and b differ: of T, else, F the if has emitted F alone.
C9_Witness ==
    /\ pc = "render"
    /\ next_node = 2
    /\ store[entry] = if_directive(<<"a","=","=","b">>, <<"T","<","?","e","l","s","e","?",">","F">>)
    /\ Context_get(context, <<"a">>) # <<"b">>
    /\ body = <<"F">>

\* ---- C10 ----
\* The collection at key of the data: its elements, none if it is missing.
Collection(key) ==
    IF data.kind = "Object" /\ key \in DOMAIN data.fields /\ data.fields[key].kind = "Array"
    THEN data.fields[key].items
    ELSE <<>>

\* C10: a for element renders its body once per element of the collection its in
\* attribute addresses in the context, in order, with the variable bound to the
\* element: [x] over xs renders one bracket per element of xs, none if xs is
\* empty or missing.
C10_IteratesCollection ==
    (pc = "done" /\ store[entry] = for_directive(<<" ","i","n","=","\"","x"," ","i","n"," ","x","s","\"">>, <<"[","<","?","g","e","t"," ","i","d","=","\"","x","\"","?",">","]">>))
    => (/\ result.ok
        /\ body = Flatten([i \in 1..Len(Collection(<<"x","s">>)) |->
                              <<"[">> \o Collection(<<"x","s">>)[i].s \o <<"]">>]))

\* ---- C11 ----
\* The node about to be rendered is a for element.
ForCase == Rendering /\ IsElement(Current, <<"f","o","r">>)

\* The loop variable of a for element: the first word of its in attribute.
LoopVar(node) ==
    IF ContainsKey(node.attrs, <<"i","n">>) /\ first_token(node.attrs[<<"i","n">>]).some
    THEN first_token(node.attrs[<<"i","n">>]).token
    ELSE <<"i","t","e","m">>

\* One pass over the children, started from the context as it is before the loop
\* with the loop variable bound to the item.
PassFrom(node, ctx, item) ==
    render_nodes(node.children, Context_set(ctx, LoopVar(node), item)).out

\* C11: rendering a for element leaves the surrounding context as it was, so that
\* neither the loop variable nor a set of the body is visible after the loop, and
\* every pass starts from the context as it was before the loop, so that a set
\* of one pass is not visible in a later pass.
C11_ForIsolated ==
    [][ForCase =>
          /\ context' = context
          /\ body' = body \o Flatten([i \in 1..Len(ForItems) |->
                                         PassFrom(Current, context, ForItems[i])])]_vars

\* k is o before the loop: every pass has read o though each sets k to v, and after
\* the loop k is still o and the loop variable is not set.
C11_Witness ==
    /\ pc = "done"
    /\ store[entry] = <<"<","?","s","e","t"," ","i","d","=","\"","k","\"","?",">","o","<","/","?","s","e","t","?",">">> \o SetInFor
    /\ body = <<"o",";","o",";","o",";","o","|">>
    /\ context.vars = (<<"k">> :> <<"o">>)

\* ---- C12 ----
\* The node about to be rendered is an if element.
IfCase == Rendering /\ IsElement(Current, <<"i","f">>)

\* The context after the nodes are rendered as C12 has it: a set element assigns
\* its rendered children, an if passes on what its rendered branch assigns, a for
\* assigns nothing, any other element passes on what its children assign.
RECURSIVE Assigned(_, _)
Assigned(nodes, ctx) ==
    IF nodes = <<>> THEN ctx
    ELSE Assigned(Tail(nodes),
                  IF Head(nodes).type # "Element" \/ Head(nodes).name = <<"f","o","r">> THEN ctx
                  ELSE IF Head(nodes).name = <<"s","e","t">>
                  THEN IF ContainsKey(Head(nodes).attrs, <<"i","d">>)
                       THEN Context_set(ctx, Head(nodes).attrs[<<"i","d">>],
                                        render_nodes(Head(nodes).children, ctx).out)
                       ELSE ctx
                  ELSE IF Head(nodes).name = <<"i","f">>
                  THEN Assigned(Branch(Head(nodes), ctx), ctx)
                  ELSE Assigned(Head(nodes).children, ctx))

\* C12: what a set assigns inside the rendered branch of an if, at any depth of
\* ifs, is in the context after the if, where the later nodes read it; what the
\* other branch would assign is not.
C12_IfSetsOuterContext ==
    [][IfCase => context' = Assigned(Branch(Current, context), context)]_vars

\* a holds: the set inside two nested ifs has assigned k, and the get after the
\* outer if has emitted it.
C12_Witness ==
    /\ pc = "done"
    /\ store[entry] = SetInNestedIf(<<"a">>, <<"a">>)
    /\ Context_get(Context_new(data), <<"a">>) # <<>>
    /\ context.vars = (<<"k">> :> <<"v">>)
    /\ body = <<"v">>

\* ---- C13 ----
\* C13: a set written in the void form with id k and value V assigns V to k: the
\* text that follows the directive is emitted and the get of k after it emits V.
C13_VoidSetAssigns ==
    (pc = "done" /\ store[entry] = VoidSet)
    => (result.ok /\ body = <<"a","f","t","e","r","V">> /\ Context_get(context, <<"k">>) = <<"V">>)

\* ---- C14 ----
\* What C14 says of the step that renders a get of key: it emits the value of key
\* in the overlay if key is assigned there, whatever the data holds at that path,
\* and what the lookup in the data alone gives otherwise.
OverlayFirst(key) ==
    body' = body \o (IF key \in DOMAIN context.vars
                     THEN context.vars[key]
                     ELSE Context_get(Context_new(data), key))

\* C14: a get of a key assigned in the overlay emits the overlay value, also an
\* empty one and also for a key with dots, whatever the data tree holds at that
\* path; the data tree is consulted only for a key absent from the overlay; and
\* the data tree of the context stays the input data.
C14_OverlayPrecedence ==
    /\ [][(Rendering /\ IsVoid(Current, <<"g","e","t">>) /\ ContainsKey(Current.attrs, <<"i","d">>))
          => OverlayFirst(Current.attrs[<<"i","d">>])]_vars
    /\ [](pc # "start" => context.data = data)

\* The data holds x at a.b; a.b has been set to the empty string and then read:
\* nothing was emitted.
C14_Witness ==
    /\ pc = "done"
    /\ store[entry] = <<"<","?","g","e","t"," ","i","d","=","\"","a",".","b","\"","?",">","<","?","s","e","t"," ","i","d","=","\"","a",".","b","\"","?",">","<","/","?","s","e","t","?",">","<","?","g","e","t"," ","i","d","=","\"","a",".","b","\"","?",">">>
    /\ data = Object(<<"a">> :> Object(<<"b">> :> String(<<"x">>)))
    /\ context.vars = (<<"a",".","b">> :> <<>>)
    /\ body = <<"x">>

\* ---- C15 ----
\* Where the dotted path ends in a data tree: at a value, or nowhere when a
\* segment is missing or the path passes through a value that is no object.
RECURSIVE PathEnd(_, _)
PathEnd(tree, segments) ==
    IF segments = <<>> THEN tree
    ELSE IF tree.kind = "Object" /\ Head(segments) \in DOMAIN tree.fields
    THEN PathEnd(tree.fields[Head(segments)], Tail(segments))
    ELSE [kind |-> "Nowhere"]

\* The segments of a key: the runs between its dots, empty runs included.
Segments(key) ==
    LET dots == {i \in 1..Len(key) : key[i] = "."}
        cuts == {0, Len(key) + 1} \cup dots
        after(c) == CHOOSE d \in cuts : d > c /\ \A e \in cuts : e > c => d <= e
    IN  [n \in 1..(Cardinality(dots) + 1) |->
            LET c == CHOOSE c \in cuts : Cardinality({d \in cuts : d < c}) = n - 1
            IN  SubSeq(key, c + 1, after(c) - 1)]

\* The text C15 has get return for a key that is not in the overlay.
PathText(tree, key) ==
    LET end == PathEnd(tree, Segments(key)) IN
    IF end.kind = "String" THEN end.s
    ELSE IF end.kind = "Number" THEN number_to_string(end.n)
    ELSE IF end.kind = "Bool" THEN bool_to_string(end.b)
    ELSE <<>>

\* The node about to be rendered is a get of a key that is not in the overlay.
DataGetCase ==
    /\ Rendering
    /\ IsVoid(Current, <<"g","e","t">>)
    /\ ContainsKey(Current.attrs, <<"i","d">>)
    /\ ~ContainsKey(context.vars, Current.attrs[<<"i","d">>])

\* C15: get is total: for every key and every data tree the get of a key that is
\* not in the overlay emits a string and the render goes on; the string is empty
\* when the dotted path has a missing segment, passes through a value that is no
\* object, or ends at an object, an array or null, and the scalar found otherwise.
C15_GetTotal ==
    [][DataGetCase =>
          /\ body' = body \o PathText(data, Current.attrs[<<"i","d">>])
          /\ pc' = "render"
          /\ result' = result]_vars

\* The path n.x of the tree passes through a number: the get has emitted nothing
\* and the render has gone on to its end.
C15_Witness ==
    /\ pc = "done"
    /\ data = Tree
    /\ store[entry] = <<"<","?","g","e","t"," ","i","d","=","\"","n",".","x","\"","?",">",";">>
    /\ result.ok
    /\ body = <<";">>

\* ---- C16 ----
\* What the step that renders the current node emits.
Emitted == SubSeq(body', Len(body) + 1, Len(body'))

\* An attribute as an opening tag carries it.
Carried(name, value) == <<" ">> \o name \o <<"=","\"">> \o value \o <<"\"">>

\* out is one tag element: an opening tag that carries the attributes in `with`
\* and none named in `without`, then inner, then the closing tag.
TagAround(tag, with, without, inner, out) ==
    LET at == FirstAt(out, <<">">>)
        open == SubSeq(out, 1, at + 1)
    IN  /\ at < Len(out)
        /\ SubSeq(open, 1, Len(tag) + 2) = <<"<">> \o tag \o <<" ">>
        /\ \A c \in with : Contains(open, c)
        /\ \A n \in without : ~Contains(open, n)
        /\ SubSeq(out, at + 2, Len(out)) = inner \o <<"<","/">> \o tag \o <<">">>

\* The node about to be rendered is an element with the given name.
ElementCase(name) == Rendering /\ IsElement(Current, name)

\* The target and swap attributes a btn, link or form carries.
TargetAndSwap(attrs) ==
    {Carried(<<"d","a","t","a","-","t","a","r","g","e","t">>, IF ContainsKey(attrs, <<"t","a","r","g","e","t">>) THEN attrs[<<"t","a","r","g","e","t">>] ELSE <<"#","b","o","d","y">>),
     Carried(<<"d","a","t","a","-","s","w","a","p">>, IF ContainsKey(attrs, <<"s","w","a","p">>) THEN attrs[<<"s","w","a","p">>] ELSE <<"i","n","n","e","r","H","T","M","L">>)}

\* The method attribute C16 has a button carry.
ButtonMethod(attrs) ==
    IF ContainsKey(attrs, <<"p","o","s","t">>) THEN Carried(<<"d","a","t","a","-","p","o","s","t">>, attrs[<<"p","o","s","t">>])
    ELSE Carried(<<"d","a","t","a","-","g","e","t">>, IF ContainsKey(attrs, <<"g","e","t">>) THEN attrs[<<"g","e","t">>] ELSE <<>>)

\* C16: a btn element renders one button: it carries data-post with the post
\* attribute when there is one and data-get with the get attribute otherwise,
\* data-target (default #body) and data-swap (default innerHTML), around the
\* rendered children.
C16_BtnDesugars ==
    [][ElementCase(<<"b","t","n">>) =>
          /\ SubSeq(body', 1, Len(body)) = body
          /\ TagAround(<<"b","u","t","t","o","n">>,
                       {ButtonMethod(Current.attrs)} \cup TargetAndSwap(Current.attrs),
                       {IF ContainsKey(Current.attrs, <<"p","o","s","t">>) THEN <<"d","a","t","a","-","g","e","t">> ELSE <<"d","a","t","a","-","p","o","s","t">>},
                       render_nodes(Current.children, context).out,
                       Emitted)]_vars

\* The template of test_btn_processing has been rendered.
C16_Witness ==
    /\ pc = "done"
    /\ store[entry] = TestBtn
    /\ result.ok
    /\ Contains(body, <<"d","a","t","a","-","p","o","s","t","=","\"","/","a","p","i","/","i","n","c","r","e","m","e","n","t","\""," ","d","a","t","a","-","t","a","r","g","e","t","=","\"","#","c","o","u","n","t","e","r","\""," ","d","a","t","a","-","s","w","a","p","=","\"","i","n","n","e","r","H","T","M","L","\"",">","\n"," "," "," "," ","C","l","i","c","k"," ","M","e","\n","<","/","b","u","t","t","o","n",">">>)

\* ---- C17 ----
\* C17: rendering a template with a link directive that has children succeeds
\* and emits an anchor with href="#", data-get, data-target and data-swap taken
\* from the attributes, around the rendered children.
C17_LinkDesugars ==
    (pc = "done" /\ store[entry] = LinkWithChildren)
    => /\ result.ok
       /\ TagAround(<<"a">>,
                    {Carried(<<"h","r","e","f">>, <<"#">>), Carried(<<"d","a","t","a","-","g","e","t">>, <<"/","u">>),
                     Carried(<<"d","a","t","a","-","t","a","r","g","e","t">>, <<"#","t">>), Carried(<<"d","a","t","a","-","s","w","a","p">>, <<"o","u","t","e","r","H","T","M","L">>)},
                    {}, <<"t","e","x","t">>, body)

\* ---- C18 ----
\* C18: a form element renders one form: it carries data-post with the post
\* attribute, data-target (default #body) and data-swap (default innerHTML),
\* around the rendered children as they are, plain HTML included.
C18_FormDesugars ==
    [][ElementCase(<<"f","o","r","m">>) =>
          /\ SubSeq(body', 1, Len(body)) = body
          /\ TagAround(<<"f","o","r","m">>,
                       {Carried(<<"d","a","t","a","-","p","o","s","t">>,
                                IF ContainsKey(Current.attrs, <<"p","o","s","t">>)
                                THEN Current.attrs[<<"p","o","s","t">>] ELSE <<>>)}
                       \cup TargetAndSwap(Current.attrs),
                       {},
                       render_nodes(Current.children, context).out,
                       Emitted)]_vars

\* The template of test_form_processing has been rendered: the input is in the
\* form as it was written.
C18_Witness ==
    /\ pc = "done"
    /\ store[entry] = TestForm
    /\ result.ok
    /\ Contains(body, <<"<","f","o","r","m"," ","d","a","t","a","-","p","o","s","t","=","\"","/","a","p","i","/","s","u","b","m","i","t","\""," ","d","a","t","a","-","t","a","r","g","e","t","=","\"","#","r","e","s","u","l","t","\""," ","d","a","t","a","-","s","w","a","p","=","\"","i","n","n","e","r","H","T","M","L","\"",">","\n"," "," "," "," ","<","i","n","p","u","t"," ","t","y","p","e","=","\"","t","e","x","t","\""," ","n","a","m","e","=","\"","n","a","m","e","\"",">","\n">>)

\* ---- C19 ----
\* The element names that are directives of the renderer.
Directives ==
    {<<"b","l","o","c","k">>, <<"s","l","o","t">>, <<"i","f">>, <<"f","o","r">>, <<"s","e","t">>, <<"b","t","n">>, <<"l","i","n","k">>, <<"f","o","r","m">>}

\* The node about to be rendered is an element that is no directive.
OtherCase == Rendering /\ Current.type = "Element" /\ Current.name \notin Directives

\* C19: an element whose name is no directive is transparent: rendering it emits
\* the rendering of its children and no tag of its own, with the context the
\* children leave, and the render goes on without an error; <?foo?>bar</?foo?>
\* renders bar.
C19_OtherTransparent ==
    /\ [][OtherCase =>
             /\ body' = body \o render_nodes(Current.children, context).out
             /\ context' = render_nodes(Current.children, context).context
             /\ (\A i \in 1..Len(Current.children) : Current.children[i].type = "Text")
                    => body' = body \o PlainText(Current.children)
             /\ pc' = "render"
             /\ result' = result]_vars
    /\ []((pc = "done" /\ store[entry] = FooBar) => (result.ok /\ body = <<"b","a","r">>))

\* <?foo?>bar</?foo?> has been rendered: the body is bar.
C19_Witness ==
    /\ pc = "done"
    /\ store[entry] = FooBar
    /\ result.ok
    /\ body = <<"b","a","r">>

\* ---- C20 ----
\* Some node of the tree, at any depth, is a directive with one of the names.
RECURSIVE Uses(_, _)
Uses(nodes, names) ==
    \E i \in 1..Len(nodes) :
        /\ nodes[i].type # "Text"
        /\ \/ nodes[i].name \in names
           \/ nodes[i].type = "Element" /\ Uses(nodes[i].children, names)

\* The body C20 describes: the literal text runs of the tree, unchanged, once
\* each and in source order, with the directive syntax gone: a get leaves the
\* value it looks up, a btn and a form their tag around what their children
\* leave, and any other directive nothing but what its children leave.
RECURSIVE Stripped(_, _)
Stripped(nodes, ctx) ==
    Flatten([i \in 1..Len(nodes) |->
        IF nodes[i].type = "Text" THEN nodes[i].text
        ELSE IF nodes[i].type = "VoidElement"
        THEN IF nodes[i].name = <<"g","e","t">> /\ ContainsKey(nodes[i].attrs, <<"i","d">>)
             THEN Context_get(ctx, nodes[i].attrs[<<"i","d">>])
             ELSE <<>>
        ELSE IF nodes[i].name = <<"b","t","n">>
        THEN button_html(nodes[i].attrs,
                         IF ContainsKey(nodes[i].attrs, <<"p","o","s","t">>) THEN <<"p","o","s","t">> ELSE <<"g","e","t">>,
                         Rendered(Stripped(nodes[i].children, ctx), ctx)).out
        ELSE IF nodes[i].name = <<"f","o","r","m">>
        THEN form_html(nodes[i].attrs, Rendered(Stripped(nodes[i].children, ctx), ctx)).out
        ELSE Stripped(nodes[i].children, ctx)])

\* The tree has no directive with one of the names, and so the body is the
\* tree with its directive syntax stripped.
TextKept(nodes, names) ==
    ~Uses(nodes, names) => body = Stripped(nodes, Context_new(data))

\* A render call has succeeded for an entry template without a load in its text.
Composed == pc = "done" /\ result.ok /\ ~Contains(store[entry], <<"<","?","l","o","a","d">>)

OpenedAt(chars, i) ==
    IF starts_with(chars, i, <<"<","?">>) /\ ~starts_with(chars, i, <<"<","/","?">>)
    THEN consume_identifier(chars, i + 2).id
    ELSE <<>>

\* An element is opened at position i and no closing sequence of its name
\* follows in the input.
NeverClosed(chars, i) ==
    /\ OpenedAt(chars, i) # <<>>
    /\ ~is_void(OpenedAt(chars, i))
    /\ \A j \in (i + 1)..(Len(chars) - 1) : ~is_closing(chars, j, OpenedAt(chars, i))

\* The last node of a parse, through the last children, is an element of the name.
RECURSIVE EndsIn(_, _)
EndsIn(nodes, name) ==
    /\ nodes # <<>>
    /\ nodes[Len(nodes)].type = "Element"
    /\ \/ nodes[Len(nodes)].name = name
       \/ EndsIn(nodes[Len(nodes)].children, name)

Tolerated(chars, parsed) ==
    \A i \in 0..(Len(chars) - 1) :
        NeverClosed(chars, i) => parsed.ok /\ EndsIn(parsed.nodes, OpenedAt(chars, i))

\* C21: for every input in which an opened element is never closed by its own
\* closing sequence, parsing succeeds and returns the element, with the children
\* collected up to the end of the input.
C21_UnclosedTolerated == pc = "start" => Tolerated(store[entry], parse(store[entry]))

\* ---- C25 ----
\* A closing sequence at position j for a name that no directive of the input
\* opens: it is expected nowhere.
Stray(chars, j) ==
    /\ starts_with(chars, j, <<"<","/","?">>)
    /\ \A i \in 0..(Len(chars) - 1) :
           OpenedAt(chars, i) # consume_identifier(chars, j + 3).id

\* The texts of a tree in source order, joined.
RECURSIVE Texts(_)
Texts(nodes) ==
    Flatten([i \in 1..Len(nodes) |->
                IF nodes[i].type = "Text" THEN nodes[i].text
                ELSE IF nodes[i].type = "Element" THEN Texts(nodes[i].children)
                ELSE <<>>])

\* The closing sequence that starts at position j, up to its ?>.
ClosingAt(chars, j) == Slice(chars, j, consume_closing(chars, j))

StrayIsText(chars, parsed) ==
    \A j \in 0..(Len(chars) - 1) :
        Stray(chars, j) => parsed.ok /\ Contains(Texts(parsed.nodes), ClosingAt(chars, j))

\* C25: a closing sequence met where none is expected is taken as literal text:
\* parsing succeeds, and the sequence is in the text of the tree.
C25_StrayClosingIsText == pc = "start" => StrayIsText(store[entry], parse(store[entry]))

\* ---- C22 ----
\* The templates on the load chain of the entry template.
Chain(edges) == {entry} \cup LoadedFrom(edges, entry)

\* Reading, parsing or resolving a template on the load chain fails: a file is
\* not there or a chain of loads comes back to a path, or a parse ends in its
\* guard.
ChainFailsIn(edges) ==
    \/ ~Acyclic(edges)
    \/ \E p \in Chain(edges) \cap DOMAIN store : ~parse(store[p]).ok

ChainFails == ChainFailsIn(LoadEdges)

Unreadable(path) == path \in Chain(LoadEdges) /\ path \notin DOMAIN store

\* C22: when a template on the load chain fails, render returns an error and no
\* output; an error leaves no body rendered; the error for a file that cannot be
\* read names the path of such a file.
C22_NoPartialOutput ==
    /\ []((pc = "done" /\ ~result.ok)
            => /\ result.out = <<>>
               /\ body = <<>>
               /\ result.err.kind = ReadErr(Gone).kind => Unreadable(result.err.path))
    /\ []((pc = "done" /\ result.ok) => ~ChainFails)

\* A template loads a partial that loads a file that is not there: the call
\* ended with the error that names the file, and nothing of the text before the
\* load is in an output.
C22_Witness ==
    /\ pc = "done"
    /\ Partial \in DOMAIN store
    /\ store[Partial] = <<"n","a","v">> \o load_directive(Gone)
    /\ ChainFails
    /\ result = Err(ReadErr(Gone))
    /\ body = <<>>

\* ---- C24 ----
\* The output modes of the claim.
OutputModes == {"document", "fragment"}

\* What a call in a mode returns for a rendered body: the body in the document
\* shell, or the body alone.
Output(mode, rendered) ==
    IF mode = "fragment" THEN {rendered}
    ELSE {wrap_html(Engine_new, rendered, order) : order \in HeadOrders}

\* C24: whichever of the two output modes the caller of render wants, a
\* successful call returns the output of that mode: the rendered body in the
\* document shell, or the rendered body alone.
C24_TwoOutputModes ==
    (pc = "done" /\ result.ok) => \A mode \in OutputModes : result.out \in Output(mode, body)

\* ---- C26 ----
\* What C26 has for a slot: the content of the block for its id, or its own
\* children with the slots in them treated the same way.
RECURSIVE Filled(_, _)
SlotFilled(slot, blocks) ==
    IF ContainsKey(slot.attrs, <<"i","d">>) /\ slot.attrs[<<"i","d">>] \in DOMAIN blocks
    THEN blocks[slot.attrs[<<"i","d">>]]
    ELSE Filled(slot.children, blocks)

\* What C26 has for a loaded tree: every slot filled, at any depth inside other
\* elements and in source order, and all else as it was.
Filled(nodes, blocks) ==
    Flatten([i \in 1..Len(nodes) |->
        IF nodes[i].type # "Element" THEN <<nodes[i]>>
        ELSE IF nodes[i].name = <<"s","l","o","t">> THEN SlotFilled(nodes[i], blocks)
        ELSE <<[nodes[i] EXCEPT !.children = Filled(@, blocks)]>>])

\* resolve_with_tracking returns the tree of a loaded template to the load
\* that called it.
LoadReturns == pc = "resolve" /\ Len(stack) > 1 /\ Top.next > Len(Top.nodes)

\* The active call that made the load.
Loader == stack[Len(stack) - 1]

\* The block map of a template: for each slot named by a top-level block, the
\* children of the last such block.
BlocksFor(nodes, slot) ==
    {i \in 1..Len(nodes) : /\ IsElement(nodes[i], <<"b","l","o","c","k">>)
                           /\ ContainsKey(nodes[i].attrs, <<"s","l","o","t">>)
                           /\ nodes[i].attrs[<<"s","l","o","t">>] = slot}

Last(indices) == CHOOSE i \in indices : \A k \in indices : k <= i

BlockMap(nodes) ==
    [slot \in {nodes[i].attrs[<<"s","l","o","t">>] :
                   i \in {k \in 1..Len(nodes) : /\ IsElement(nodes[k], <<"b","l","o","c","k">>)
                                                /\ ContainsKey(nodes[k].attrs, <<"s","l","o","t">>)}}
        |-> nodes[Last(BlocksFor(nodes, slot))].children]

\* The composed tree of the template at path: its top-level nodes without the
\* blocks, each top-level load replaced by the composed tree of its file with
\* the slots filled from the template's block map.  fuel bounds the depth of
\* loads.
\* A load directive with a file attribute.
LoadsFile(node) ==
    node.type = "VoidElement" /\ node.name = <<"l","o","a","d">> /\ <<"f","i","l","e">> \in DOMAIN node.attrs

RECURSIVE ComposedTree(_, _)
ComposedTree(path, fuel) ==
    LET nodes == NodesOf(path) IN
    Flatten([i \in 1..Len(nodes) |->
        IF IsElement(nodes[i], <<"b","l","o","c","k">>) THEN <<>>
        ELSE IF ~LoadsFile(nodes[i]) THEN <<nodes[i]>>
        ELSE IF fuel = 0 THEN <<>>
        ELSE Filled(ComposedTree(nodes[i].attrs[<<"f","i","l","e">>], fuel - 1), BlockMap(nodes))])

\* C26: when a loaded template returns to the load that called it, its own loads
\* have been resolved, and what the loading template takes in is the loaded tree
\* with every slot filled from the loading template's block map.
C26_InjectionReachesEverySlot ==
    [][LoadReturns =>
          /\ Top.resolved_nodes = ComposedTree(Top.template_path, Cardinality(DOMAIN store))
          /\ stack'[Len(stack) - 1].resolved_nodes
                 = Loader.resolved_nodes \o Filled(Top.resolved_nodes, Loader.blocks)]_vars

\* The page with a block for slot b has loaded the layout, where b is a slot
\* inside the default of slot a inside a div and again a slot of the div: both
\* hold the block, and the slot with no id is replaced by its default.
C26_Witness ==
    /\ pc = "done"
    /\ entry = Page
    /\ store[Layout] = NestedSlots
    /\ store[Page] = load_directive(Layout) \o block_directive(<<"b">>, <<"Y">>)
    /\ resolved_nodes
           = <<Element(<<"d","i","v">>, EmptyMap,
                       <<Text(<<"A">>), Text(<<"Y">>), Text(<<"|">>), Text(<<"Y">>)>>),
               Text(<<"N">>)>>
    /\ body = <<"A","Y","|","Y","N">>

\* ---- C27 ----
\* A load directive with a file attribute is in the tree, at any depth.
RECURSIVE LoadIn(_)
LoadIn(nodes) ==
    \E i \in 1..Len(nodes) :
        \/ LoadsFile(nodes[i])
        \/ nodes[i].type = "Element" /\ LoadIn(nodes[i].children)

\* The node is a child of a top-level block of a template of the store.
ChildOfBlock(node, nodes) ==
    \E k \in 1..Len(nodes) :
        /\ IsElement(nodes[k], <<"b","l","o","c","k">>)
        /\ \E c \in 1..Len(nodes[k].children) : nodes[k].children[c] = node

InBlock(node) == \E p \in DOMAIN store : ChildOfBlock(node, NodesOf(p))

\* resolve_with_tracking returns the composed tree to render.
Resolved == pc = "resolve" /\ pc' = "render"

RECURSIVE SlotIn(_)
SlotIn(nodes) ==
    \E i \in 1..Len(nodes) :
        /\ nodes[i].type = "Element"
        /\ nodes[i].name = <<"s","l","o","t">> \/ SlotIn(nodes[i].children)

\* No block of the map has a slot element in its content.
SlotFree(blocks) == \A slot \in DOMAIN blocks : ~SlotIn(blocks[slot])

\* What the loading template takes in from the loaded one.
TakenIn ==
    SubSeq(stack'[Len(stack) - 1].resolved_nodes,
           Len(Loader.resolved_nodes) + 1, Len(stack'[Len(stack) - 1].resolved_nodes))

\* An entry template with blocks for s and t loads a page that loads the layout
\* with the slots s and t.
ThreeLevels ==
    /\ entry = Main
    /\ Layout \in DOMAIN store
    /\ store[Main] = Outer
    /\ store[Layout] = TwoSlots

\* C28: when a loaded template returns to the load that called it, no slot
\* element of the loaded tree is left in what the loading template takes in,
\* only those its own blocks hold; so an entry template that loads a page that
\* loads a layout does not fill the layout's slots: the body has the page's
\* block or the layout's default, and nothing of the entry template's blocks.
C28_SlotsConsumedAtFirstLoad ==
    /\ [][(LoadReturns /\ SlotFree(Loader.blocks)) => ~SlotIn(TakenIn)]_vars
    /\ []((pc = "done" /\ ThreeLevels)
            => /\ result.ok
               /\ body \in {<<"[","S","|","T","]">>, <<"[","S","|","M","]">>}
               /\ ~SlotIn(resolved_nodes))

\* The page fills t and leaves s: the entry template's blocks for s and t are
\* dropped, and s shows the layout's default.
C28_Witness ==
    /\ pc = "done"
    /\ ThreeLevels
    /\ store[Page] = load_directive(Layout) \o block_directive(<<"t">>, <<"M">>)
    /\ body = <<"[","S","|","M","]">>

\* ---- C29 ----
\* How a sibling scan that started at `start` was left, st being the state of
\* its loop at the end and own the Err of its own guard: with Ok, or by its guard
\* with more than 10000 iterations made before the end of the input, or by the
\* Err of a scan of children further on.
ScanEnds(chars, start, st, own) ==
    /\ st.done
    /\ st.pos >= start
    /\ \/ st.err = NoErr
       \/ st.err = own /\ st.iterations > MaxIterations /\ st.pos < Len(chars)
       \/ st.err.kind = ParseUntilErr(<<>>, 0).kind /\ st.err # own /\ st.err.pos >= start

\* The scan of the top level ends, and with Ok only at the end of the input.
TopScanEnds(chars, st) ==
    /\ ScanEnds(chars, 0, st, ParseLoopErr(st.pos))
    /\ st.err = NoErr => st.pos >= Len(chars)

\* Where the children of the element opened at position i start.
ChildrenStart(chars, name) == tag_end(chars, parse_attributes(chars, name.pos).pos)

ChildScanEnds(chars, name, start) ==
    ScanEnds(chars, start, parse_until_loop(chars, name, LoopStart(start)),
             ParseUntilErr(name, parse_until_loop(chars, name, LoopStart(start)).pos))

\* The scans of the children of every element opened in the input end.
ChildScansEnd(chars) ==
    \A i \in 0..(Len(chars) - 1) :
        (OpenedAt(chars, i) # <<>> /\ ~is_void(OpenedAt(chars, i)))
        => ChildScanEnds(chars, OpenedAt(chars, i),
                         ChildrenStart(chars, consume_identifier(chars, i + 2)))

\* The attribute scan is left where it is at the end of the input or at ?> or
\* /?>, after the whitespace.
AttributesEnd(chars, pos) ==
    \/ pos >= Len(chars)
    \/ starts_with(chars, pos, <<"?",">">>)
    \/ starts_with(chars, pos, <<"/","?",">">>)

\* From position pos no step of the parser moves back, and the attribute scan
\* and the closing scan move on.
Advances(chars, pos) ==
    /\ consume_identifier(chars, pos).pos >= pos
    /\ consume_text(chars, pos).pos >= pos
    /\ parse_attributes(chars, pos).pos >= skip_whitespace(chars, pos)
    /\ skip_whitespace(chars, pos) >= pos
    /\ ~AttributesEnd(chars, skip_whitespace(chars, pos))
           => parse_attributes(chars, pos).pos > pos
    /\ tag_end(chars, pos) >= pos
    /\ pos < Len(chars) => (consume_closing(chars, pos) > pos /\ parse_node(chars, pos).pos >= pos)

Terminates(chars) ==
    /\ TopScanEnds(chars, parse_loop(chars, LoopStart(0)))
    /\ chars \in ParserTemplates
           => /\ ChildScansEnd(chars)
              /\ \A pos \in 0..Len(chars) : Advances(chars, pos)

\* C29: on every input the parse ends, in Ok(nodes) or in the Err of a guard; no
\* step moves the position back, the attribute scan and the closing scan move it
\* on, and a sibling scan that does not reach the end of the input is left by
\* its guard once it has made more than 10000 iterations.
C29_ParsingTerminates ==
    /\ [](pc = "start" => Terminates(store[entry]))
    /\ []((pc = "done" /\ result.err.kind = ParseLoopErr(0).kind)
            => \E p \in DOMAIN store :
                   /\ parse_loop(store[p], LoopStart(0)).err = result.err
                   /\ parse_loop(store[p], LoopStart(0)).iterations = MaxIterations + 1
                   /\ result.err.pos < Len(store[p]))

\* The parse of a template with a closing sequence that nobody opened was left
\* by the guard of the top level, at the closing sequence.
C29_Witness ==
    /\ pc = "done"
    /\ store[entry] = <<"a","<","/","?","x","?",">","b">>
    /\ result = Err(ParseLoopErr(1))
    /\ parse_loop(store[entry], LoopStart(0)).iterations = MaxIterations + 1

\* ---- C30 ----
\* The strings the parser tests for with starts_with.
Marks == {<<"<","?">>, <<"<","/","?">>, <<"?",">">>, <<"/","?",">">>}

\* The names the parser tests a closing sequence for: those of the directives
\* the input opens.
Opened(chars) == {OpenedAt(chars, i) : i \in 0..(Len(chars) - 1)} \ {<<>>}

\* The indices at which the parser reads the character buffer when it is at
\* position pos.
ReadsAt(chars, pos) ==
    guarded_read(chars, pos)
    \cup UNION {starts_with_reads(chars, pos, s) : s \in Marks}
    \cup UNION {is_closing_reads(chars, pos, name) : name \in Opened(chars)}

\* The positions the steps of the parser leave from position pos.
StepsFrom(chars, pos) ==
    {skip_whitespace(chars, pos), consume_identifier(chars, pos).pos,
     parse_attributes(chars, pos).pos, attribute_value(chars, pos).pos,
     tag_end(chars, pos), consume_text(chars, pos).pos, consume_closing(chars, pos),
     parse_node(chars, pos).pos}

\* The input ends inside a quoted attribute value.
EndsInQuote(chars) ==
    \E i \in 0..(Len(chars) - 1) :
        /\ At(chars, i) \in {"\"", "'"}
        /\ \A j \in (i + 1)..(Len(chars) - 1) : At(chars, j) # At(chars, i)

\* Every position the parser can be at is at most one past the end, no step
\* from such a position leaves it further on, and no read from it is at an index
\* at or beyond the length.
NoReadBeyond(chars) ==
    \A pos \in 0..(Len(chars) + 1) :
        /\ \A next \in StepsFrom(chars, pos) : next <= Len(chars) + 1
        /\ \A i \in ReadsAt(chars, pos) : i >= 0 /\ i < Len(chars)

\* C30: on every input, cut off anywhere, the parser reads the character buffer
\* below its length only; the position ends at most one past the end, and past
\* the end only for an input that ends inside a quoted attribute value.
C30_NoReadBeyondTheEnd ==
    [](pc = "start" =>
          /\ parse(store[entry]).pos <= Len(store[entry]) + 1
          /\ parse(store[entry]).pos > Len(store[entry]) => EndsInQuote(store[entry])
          /\ store[entry] \in ParserTemplates => NoReadBeyond(store[entry]))

\* The template cut off inside the quoted value of its first attribute: the
\* parse left the position one past the end and succeeded, with the value read
\* so far.
C30_Witness ==
    /\ pc = "done"
    /\ store[entry] = <<"a","<","?","f","o","o"," ","k","=","\"","v">>
    /\ parse(store[entry]).pos = Len(store[entry]) + 1
    /\ resolved_nodes = <<Text(<<"a">>), Element(<<"f","o","o">>, <<"k">> :> <<"v">>, <<>>)>>
    /\ result.ok

\* ---- C23 ----
\* returned is what render returns for these arguments when it is the only call on
\* the Engine, r being what its resolve_with_tracking returns then.
ReturnedAlone(returned, value, r) ==
    IF ~r.ok
    THEN returned = Err(r.err)
    ELSE /\ returned.ok
         /\ \E order \in HeadOrders :
               returned.out = wrap_html(Engine_new,
                                        render_nodes(r.nodes, Context_new(value)).out, order)

Alone(returned, files, template_path, value) ==
    ReturnedAlone(returned, value, resolve_with_tracking(files, template_path, {}))

ActivePaths(frames) == {frames[k].template_path : k \in DOMAIN frames}

\* C23: render calls running at once on one Engine do not interfere. Whatever the
\* order of their steps, each call's visited set holds the templates of its own
\* active loads and nothing of another call's, and each call returns what it returns
\* when it runs alone with the same arguments: the same document or the same error.
C23_CallsDoNotInterfere ==
    /\ pc = "resolve" => visited = ActivePaths(stack)
    /\ pc = "done" => Alone(result, store, entry, data)
    /\ \A i \in DOMAIN calls :
          /\ calls[i].pc = "resolve" => calls[i].visited = ActivePaths(calls[i].stack)
          /\ calls[i].pc = "done" =>
                Alone(calls[i].result, store, calls[i].entry, calls[i].data)

\* Two calls of the same template with different data have both returned, each
\* with the document of its own data, after each set the same variable.
C23_Witness ==
    /\ calls # <<>>
    /\ pc = "done"
    /\ calls[1].pc = "done"
    /\ entry = calls[1].entry
    /\ store[entry] = OwnData
    /\ data = NoData
    /\ body = <<"S">>
    /\ calls[1].body = <<"E","S">>
    /\ result.ok
    /\ calls[1].result.ok
    /\ result # calls[1].result
====
